---- MODULE Spec2Model ----
(***************************************************************************)
(* State-machine model of qibo's circuit execution engine                  *)
(* (src/qibo/core/circuit.py): circuits, their gate queues, the gate and   *)
(* parameter-tensor objects they share, compilation, fusion copies and     *)
(* execution with its error paths.                                         *)
(***************************************************************************)
EXTENDS Integers, Sequences, FiniteSets, TLC

VARIABLES
    K,          \* the numeric backend: [custom_gates]
    circuits,   \* circuit slot -> circuit object, or NoCircuit
    gates,      \* heap of gate objects, indexed by object identity
    tensors,    \* heap of parameter tensors (mutable), indexed by identity
    callbacks,  \* callback object -> its history: the values it recorded
    OMP_NUM_THREADS,  \* config.OMP_NUM_THREADS: the configured thread count
    input,      \* the environment and arguments of a call on its own
    result      \* what the last call did: its arguments, return value or error

\* The configuration and the arguments drawn for calls on their own, which
\* the circuit operations leave alone.
config == <<OMP_NUM_THREADS, input>>

vars == <<K, circuits, gates, tensors, callbacks, OMP_NUM_THREADS, input,
          result>>

----------------------------------------------------------------------------
(* Bounds of the model *)

MaxCircuits == 2
MaxQubits == 2
MaxQueue == 2
MaxShots == 2
MaxCallbackQueue == 3
MaxHistory == 2
MaxDevices == 2
MaxTomographyQubits == 3
MaxPaulis == 2
MaxOperators == 2
MaxNorm == 2
MaxThreads == 2

CircuitIds == 1..MaxCircuits

\* Python's None, where a string (an error name, a handle) may stand, and
\* where a tensor or a returned value may stand.
None == "None"
NoneT == [ttype |-> "None"]
NoRet == [kind |-> "None"]
NoCircuit == [cls |-> "none"]
NoInput == [of |-> "none"]

\* A Python object of the given type holding the number v (True is 1 and
\* False is 0; v is 0 for an object that is not a number).
PyObject(type, v) == [type |-> type, value |-> v]

PyInt(v) == PyObject("int", v)

----------------------------------------------------------------------------
(* Complex numbers, vectors and matrices of the backend *)

\* A complex number is <<re, im>>.
Cx(re, im) == <<re, im>>

conj(z) == <<z[1], 0 - z[2]>>

CxMul(a, b) == <<a[1] * b[1] - a[2] * b[2], a[1] * b[2] + a[2] * b[1]>>

Pow2(n) == IF n = 0 THEN 1 ELSE IF n = 1 THEN 2 ELSE IF n = 2 THEN 4
           ELSE IF n = 3 THEN 8 ELSE 16

\* K.conj on the entries of a vector.
K_conj(v) == [k \in 1..Len(v) |-> conj(v[k])]

\* K.outer(x, y) = tensordot(x, y, axes=0): out[j][k] = x[j] * y[k].
K_outer(x, y) ==
    [j \in 1..Len(x) |-> [k \in 1..Len(y) |-> CxMul(x[j], y[k])]]

\* A tensor value: the type of the object holding it (a backend tensor
\* type, or a foreign one), whether the object has a .shape attribute, its
\* shape, its entries, and the gate actions applied to it so far.
Tensor(ttype, has_shape, shape, data) ==
    [ttype |-> ttype, has_shape |-> has_shape, shape |-> shape,
     data |-> data, ops |-> <<>>]

\* K.reshape(state, shape): the same entries under another shape.
K_reshape(t, shape) == [t EXCEPT !.shape = shape]

\* K.cast(state): a backend tensor of the circuit's dtype, same entries.
K_cast(t) == [t EXCEPT !.ttype = "backend", !.has_shape = TRUE]

\* K.initial_state(nqubits, is_matrix): |0...0> or |0...0><0...0|.
K_initial_state(nqubits, is_matrix) ==
    LET d == Pow2(nqubits)
        one(k) == IF k = 1 THEN Cx(1, 0) ELSE Cx(0, 0)
    IN IF is_matrix
       THEN Tensor("backend", TRUE, <<d, d>>,
                   [j \in 1..d |-> [k \in 1..d |->
                        IF j = 1 THEN one(k) ELSE Cx(0, 0)]])
       ELSE Tensor("backend", TRUE, <<d>>, [k \in 1..d |-> one(k)])

----------------------------------------------------------------------------
(* Gate objects *)

\* A gate object. nqubits = 0 models the unset qubit count of a gate that
\* was never prepared; param is the identity of its parameter tensor
\* (0: none); fused lists the actions a synthetic unitary composes;
\* copy_of is history: the object a copy.copy() call copied it from.
Gate(name, kind, trainable, param) ==
    [name |-> name, kind |-> kind, trainable |-> trainable, param |-> param,
     qubits |-> {0}, nqubits |-> 0, is_prepared |-> FALSE, fused |-> <<>>,
     copy_of |-> 0, callback |-> 0]

\* gates.CallbackGate(callback): a gate that holds the callback it
\* evaluates.
CallbackGate(name, callback) ==
    [Gate(name, "callback", FALSE, 0) EXCEPT !.callback = callback]

\* The gates the caller has constructed and may add to circuits.
UserGates ==
    << Gate("H", "fixed", FALSE, 0),
       Gate("RX", "param", TRUE, 1),
       Gate("RY", "param", FALSE, 2),
       Gate("Noise", "channel", FALSE, 0),
       Gate("M", "measurement", FALSE, 0),
       CallbackGate("Cb1", 1),
       CallbackGate("Cb2", 2) >>

GateIds == 1..Len(gates)

isParametrizedGate(g) == g.kind = "param"

\* gate.prepare(): marks the gate prepared for its current qubit count.
prepare(g) == [g EXCEPT !.is_prepared = TRUE]

\* The action a gate has on a state: what gate(state) appends to the
\* state's history. A parametrized gate acts by the current value of its
\* parameter tensor, a synthetic unitary by the actions it composes, a
\* channel by the unitary it draws (choice).
GateAction(g, choice) ==
    CASE g.kind = "param" -> << <<g.name, tensors[g.param]>> >>
      [] g.kind = "unitary" -> g.fused
      [] g.kind = "channel" -> << <<g.name, choice>> >>
      [] OTHER -> << <<g.name, 0>> >>

----------------------------------------------------------------------------
(* Circuit objects *)

FlatShape(cls, n) == IF cls = "DensityMatrixCircuit"
                     THEN <<Pow2(n), Pow2(n)>> ELSE <<Pow2(n)>>

TensorShape(cls, n) == IF cls = "DensityMatrixCircuit"
                       THEN [k \in 1..(2 * n) |-> 2] ELSE [k \in 1..n |-> 2]

\* Circuit.__init__ / DensityMatrixCircuit.__init__ (over the fields the
\* abstract circuit's constructor sets: empty queue, no measurement gate,
\* no final state, no repeated execution). executed and compiles are
\* history: whether an execute call of this circuit has run the queue and
\* returned, and how many compile calls of it have returned.
NewCircuitObject(cls, n) ==
    [cls |-> cls,
     nqubits |-> n,
     queue |-> <<>>,
     parametrized_gates |-> <<>>,
     trainable_gates |-> <<>>,
     measurement_gate |-> 0,
     measurement_tuples |-> {},
     fusion_groups |-> <<>>,
     repeated_execution |-> FALSE,
     density_matrix |-> (cls = "DensityMatrixCircuit"),
     compiled_execute |-> None,
     check_initial_state_shape |-> TRUE,
     shapes |-> [TENSOR |-> TensorShape(cls, n),
                 VECTOR |-> <<Pow2(n)>>,
                 FLAT |-> FlatShape(cls, n)],
     final_state |-> NoneT,
     executed |-> FALSE,
     compiles |-> 0]

Live == {c \in CircuitIds : circuits[c] # NoCircuit}

Free == {c \in CircuitIds : circuits[c] = NoCircuit}

\* The values recorded by no callback gate: one empty list per callback.
NoRecorded == << <<>>, <<>> >>

CallbackIds == 1..Len(NoRecorded)

\* The record of a call: its arguments, the error it raised (None: it
\* returned), the value it returned and the events of its run in order.
Res(op, c) ==
    [op |-> op, circ |-> c, gate |-> 0, new |-> 0, error |-> None,
     oom |-> FALSE, init |-> NoneT, nshots |-> <<>>, ret |-> NoRet,
     events |-> <<>>, recorded |-> NoRecorded]

NoResult == Res("none", 0)

Init ==
    /\ K \in {[custom_gates |-> b] : b \in BOOLEAN}
    /\ circuits = [c \in CircuitIds |-> NoCircuit]
    /\ gates = UserGates
    /\ tensors = <<0, 0>>
    /\ callbacks = NoRecorded
    /\ OMP_NUM_THREADS = PyInt(1)
    /\ input = NoInput
    /\ result = NoResult

\* models.Circuit(n) / models.Circuit(n, density_matrix=True)
NewCircuit(c, cls, n) ==
    /\ c \in Free
    /\ \A d \in Free : c <= d
    /\ circuits' = [circuits EXCEPT ![c] = NewCircuitObject(cls, n)]
    /\ result' = Res("new", c)
    /\ UNCHANGED <<K, gates, tensors, callbacks, config>>

----------------------------------------------------------------------------
(* Queue management *)

\* A Circuit.set_nqubits without its guard: it prepares any gate anew.
set_nqubits_accepts(circ, gate) == FALSE

\* Circuit.set_nqubits: the guard that raises RuntimeError.
set_nqubits_raises(circ, gate) ==
    gate.is_prepared /\ gate.nqubits # circ.nqubits

\* Circuit.set_nqubits: the gate after a call that does not raise.
set_nqubits(circ, gate) == prepare([gate EXCEPT !.nqubits = circ.nqubits])

\* circuit.set_nqubits(gate) called on its own.
SetNqubits(c, g) ==
    /\ c \in Live /\ g \in GateIds
    /\ IF set_nqubits_raises(circuits[c], gates[g])
       THEN /\ result' = [Res("set_nqubits", c) EXCEPT
                            !.gate = g, !.error = "RuntimeError"]
            /\ UNCHANGED gates
       ELSE /\ gates' = [gates EXCEPT ![g] = set_nqubits(circuits[c], @)]
            /\ result' = [Res("set_nqubits", c) EXCEPT !.gate = g]
    /\ UNCHANGED <<K, circuits, tensors, callbacks, config>>

Append2(q, g, cond) == IF cond THEN Append(q, g) ELSE q

\* circuit.add(gate) for one gate: set the qubit count, then queue it. A
\* measurement gate is kept aside as the circuit's measurement gate with its
\* register; a channel switches a state-vector circuit to repeated
\* execution.
AddGate(c, g) ==
    /\ c \in Live /\ g \in GateIds
    /\ gates[g].kind # "unitary"
    /\ LET circ == circuits[c]
           gate == gates[g]
           dup == gate.kind = "measurement" /\ circ.measurement_gate # 0
       IN IF set_nqubits_raises(circ, gate) \/ dup
          THEN /\ result' = [Res("add", c) EXCEPT
                               !.gate = g,
                               !.error = IF dup THEN "KeyError"
                                         ELSE "RuntimeError"]
               /\ UNCHANGED <<circuits, gates>>
          ELSE /\ gates' = [gates EXCEPT ![g] = set_nqubits(circ, @)]
               /\ circuits' = [circuits EXCEPT ![c] =
                    IF gate.kind = "measurement"
                    THEN [circ EXCEPT !.measurement_gate = g,
                                      !.measurement_tuples = {gate.name}]
                    ELSE [circ EXCEPT
                            !.queue = Append(@, g),
                            !.parametrized_gates =
                                Append2(@, g, isParametrizedGate(gate)),
                            !.trainable_gates =
                                Append2(@, g, isParametrizedGate(gate)
                                               /\ gate.trainable),
                            !.repeated_execution =
                                @ \/ (gate.kind = "channel"
                                      /\ ~circ.density_matrix)]]
               /\ result' = [Res("add", c) EXCEPT !.gate = g]
    /\ UNCHANGED <<K, tensors, callbacks, config>>

\* circuit.add(gate) on a queue of fewer than MaxQueue gates.
Add(c, g) ==
    /\ c \in Live
    /\ Len(circuits[c].queue) < MaxQueue
    /\ AddGate(c, g)

\* The loop of Circuit._add_layer over gate.unitaries followed by
\* gate.additional_unitary: each unitary gets the circuit's qubit count and
\* is queued; a raising set_nqubits stops the loop with the earlier ones
\* already queued. Returns the heap, the queue and the error.
RECURSIVE add_layer_loop(_, _, _, _)
add_layer_loop(circ, heap, queue, us) ==
    IF us = <<>> THEN [heap |-> heap, queue |-> queue, error |-> None]
    ELSE LET g == Head(us) IN
         IF set_nqubits_raises(circ, heap[g])
         THEN [heap |-> heap, queue |-> queue, error |-> "RuntimeError"]
         ELSE add_layer_loop(circ,
                             [heap EXCEPT ![g] = set_nqubits(circ, @)],
                             Append(queue, g), Tail(us))

LayerGates == {g \in GateIds : gates[g].kind \in {"fixed", "param"}}

\* circuit._add_layer(gate), gate a layer of unitaries us with the
\* additional unitary au (<<>> when it is None).
AddLayer(c, us, au) ==
    /\ c \in Live
    /\ Len(circuits[c].queue) + Len(us) + Len(au) <= MaxQueue
    /\ LET r == add_layer_loop(circuits[c], gates, circuits[c].queue,
                               us \o au)
       IN /\ gates' = r.heap
          /\ circuits' = [circuits EXCEPT ![c].queue = r.queue]
          /\ result' = [Res("_add_layer", c) EXCEPT !.error = r.error]
    /\ UNCHANGED <<K, tensors, callbacks, config>>

----------------------------------------------------------------------------
(* Copy and fusion *)

\* copy.copy(gate): a new gate object whose attributes refer to the same
\* objects as the original's (a shallow copy).
copy_copy(gate, g) == [gate EXCEPT !.copy_of = g]

\* The loop of Circuit._fuse_copy over self.queue: new is the circuit being
\* filled, heap the gate heap (a copy is a newly allocated object).
RECURSIVE fuse_copy_loop(_, _, _)
fuse_copy_loop(new, heap, q) ==
    IF q = <<>> THEN [circuit |-> new, heap |-> heap]
    ELSE LET g == Head(q)
             gate == heap[g]
             n == Len(heap) + 1
         IN IF isParametrizedGate(gate)
            THEN IF gate.trainable
                 THEN fuse_copy_loop(
                        [new EXCEPT !.queue = Append(@, n),
                                    !.parametrized_gates = Append(@, n),
                                    !.trainable_gates = Append(@, n)],
                        Append(heap, copy_copy(gate, g)), Tail(q))
                 ELSE fuse_copy_loop(
                        [new EXCEPT !.queue = Append(@, g),
                                    !.parametrized_gates = Append(@, g)],
                        heap, Tail(q))
            ELSE fuse_copy_loop([new EXCEPT !.queue = Append(@, g)],
                                heap, Tail(q))

\* Circuit._fuse_copy: the new circuit and the heap after it.
fuse_copy(circ, heap) ==
    LET r == fuse_copy_loop(NewCircuitObject(circ.cls, circ.nqubits),
                            heap, circ.queue)
        m == circ.measurement_gate
        n == Len(r.heap) + 1
    IN IF m = 0
       THEN [circuit |-> [r.circuit EXCEPT
                            !.measurement_tuples = circ.measurement_tuples],
             heap |-> r.heap]
       ELSE [circuit |-> [r.circuit EXCEPT
                            !.measurement_gate = n,
                            !.measurement_tuples = circ.measurement_tuples],
             heap |-> Append(r.heap, copy_copy(heap[m], m))]

\* new_circuit = circuit._fuse_copy(), the new circuit landing in slot d.
FuseCopy(c, d) ==
    /\ c \in Live /\ d \in Free
    /\ \A e \in Free : d <= e
    /\ LET r == fuse_copy(circuits[c], gates)
       IN /\ circuits' = [circuits EXCEPT ![d] = r.circuit]
          /\ gates' = r.heap
    /\ result' = [Res("_fuse_copy", c) EXCEPT !.new = d]
    /\ UNCHANGED <<K, tensors, callbacks, config>>

\* Whether a gate has a known matrix, so that a fusion group absorbs it.
Fusable(gate) == gate.kind \in {"fixed", "param", "unitary"}

\* FusionGroup.from_queue: greedy left-to-right scan. The current group is
\* extended with the next gate while the qubits touched stay within two; a
\* gate without a matrix is a group of its own.
RECURSIVE from_queue(_, _, _, _)
from_queue(heap, q, groups, cur) ==
    LET close == IF cur = <<>> THEN groups ELSE Append(groups, cur)
        qubitsOf(grp) == UNION {heap[grp[i]].qubits : i \in 1..Len(grp)}
    IN IF q = <<>> THEN close
       ELSE LET g == Head(q) IN
            IF ~Fusable(heap[g])
            THEN from_queue(heap, Tail(q), Append(close, <<g>>), <<>>)
            ELSE IF Cardinality(qubitsOf(cur) \cup heap[g].qubits) <= 2
            THEN from_queue(heap, Tail(q), groups, Append(cur, g))
            ELSE from_queue(heap, Tail(q), close, <<g>>)

\* The dense action of a group: its gates' actions composed in order.
RECURSIVE group_action(_, _)
group_action(heap, grp) ==
    IF grp = <<>> THEN <<>>
    ELSE GateAction(heap[Head(grp)], 0) \o group_action(heap, Tail(grp))

\* group.gates for every group, in order: the synthetic unitary of a group
\* of gates with matrices (a new object, prepared for the circuit's qubit
\* count), or the gate itself when it has no matrix. Returns the queue and
\* the heap.
RECURSIVE group_gates(_, _, _, _)
group_gates(nqubits, heap, groups, queue) ==
    IF groups = <<>> THEN [queue |-> queue, heap |-> heap]
    ELSE LET grp == Head(groups) IN
         IF Fusable(heap[grp[1]])
         THEN LET u == [name |-> "Unitary", kind |-> "unitary",
                        trainable |-> FALSE, param |-> 0,
                        qubits |-> UNION {heap[grp[i]].qubits :
                                            i \in 1..Len(grp)},
                        nqubits |-> nqubits, is_prepared |-> TRUE,
                        fused |-> group_action(heap, grp), copy_of |-> 0]
              IN group_gates(nqubits, Append(heap, u), Tail(groups),
                             Append(queue, Len(heap) + 1))
         ELSE group_gates(nqubits, heap, Tail(groups),
                          Append(queue, grp[1]))

\* A fuse that replaces the queue by a new one and never fills it.
fuse_unfilled(circ, heap) ==
    [circuit |-> [fuse_copy(circ, heap).circuit EXCEPT
                    !.fusion_groups =
                        from_queue(fuse_copy(circ, heap).heap,
                                   fuse_copy(circ, heap).circuit.queue,
                                   <<>>, <<>>),
                    !.queue = <<>>],
     heap |-> fuse_copy(circ, heap).heap]

\* Circuit.fuse: the fused circuit and the heap after it.
fuse(circ, heap) ==
    LET copy == fuse_copy(circ, heap)
        groups == from_queue(copy.heap, copy.circuit.queue, <<>>, <<>>)
        r == group_gates(circ.nqubits, copy.heap, groups, <<>>)
    IN [circuit |-> [copy.circuit EXCEPT !.fusion_groups = groups,
                                         !.queue = r.queue],
        heap |-> r.heap]

\* A fuse that also puts the fused queue into the receiver.
fuse_in_place(c, d, new) ==
    [circuits EXCEPT ![d] = new, ![c].queue = new.queue]

\* The circuit objects after fused = circuit.fuse(): the fused circuit is a
\* new object (slot d); the receiver (slot c) is not assigned to.
fuse_assign(c, d, new) == [circuits EXCEPT ![d] = new]

\* fused = circuit.fuse()
Fuse(c, d) ==
    /\ c \in Live /\ d \in Free
    /\ \A e \in Free : d <= e
    /\ LET r == fuse(circuits[c], gates)
       IN /\ circuits' = fuse_assign(c, d, r.circuit)
          /\ gates' = r.heap
    /\ result' = [Res("fuse", c) EXCEPT !.new = d]
    /\ UNCHANGED <<K, tensors, callbacks, config>>

----------------------------------------------------------------------------
(* Compilation *)

\* K.compile(self._execute_for_compile): the handle of the compiled graph.
K_compile == "compiled"

\* A Circuit.compile without the guard on self._compiled_execute.
compile_raises_fresh(circ) ==
    \/ circ.queue = <<>>
    \/ K.custom_gates

\* Circuit.compile: the three guards that raise RuntimeError.
compile_raises(circ) ==
    \/ circ.compiled_execute # None
    \/ circ.queue = <<>>
    \/ K.custom_gates

\* circuit.compile()
Compile(c) ==
    /\ c \in Live
    /\ IF compile_raises(circuits[c])
       THEN /\ result' = [Res("compile", c) EXCEPT !.error = "RuntimeError"]
            /\ UNCHANGED circuits
       ELSE /\ circuits' = [circuits EXCEPT
                              ![c].compiled_execute = K_compile,
                              ![c].compiles = @ + 1]
            /\ result' = Res("compile", c)
    /\ UNCHANGED <<K, gates, tensors, callbacks, config>>

----------------------------------------------------------------------------
(* Initial states *)

\* Entries of the initial states a caller passes in.
Amp1(d) == [k \in 1..d |-> IF k = 1 THEN Cx(0, 1) ELSE Cx(0, 0)]

Amp2(d) == [k \in 1..d |-> IF k = 1 THEN Cx(1, 0)
                           ELSE IF k = 2 THEN Cx(0, 1) ELSE Cx(0, 0)]

\* The initial_state arguments tried on a circuit of n qubits: None, state
\* vectors, density matrices, a vector of the wrong length, and objects
\* whose type is not a backend tensor type (with and without a shape).
InitialStates(n) ==
    LET d == Pow2(n)
    IN {NoneT,
        Tensor("backend", TRUE, <<d>>, Amp2(d)),
        Tensor("backend", TRUE, <<d, d>>, K_outer(Amp2(d), K_conj(Amp2(d)))),
        Tensor("backend", TRUE, <<d + 1>>, Amp1(d + 1)),
        Tensor("foreign", TRUE, <<d>>, Amp2(d)),
        Tensor("foreign", TRUE, <<d + 1>>, Amp1(d + 1)),
        Tensor("foreign", FALSE, <<d>>, Amp1(d))}

\* isinstance(state, K.tensor_types)
isTensorType(state) == state.ttype = "backend"

\* Circuit._cast_initial_state
Circuit_cast_initial_state(state) ==
    IF isTensorType(state)
    THEN [error |-> None, state |-> K_cast(state)]
    ELSE [error |-> "TypeError", state |-> NoneT]

\* A promotion that forgets the conjugate: K.outer(state, state).
promote_plain(v) == v

\* The vector DensityMatrixCircuit._cast_initial_state conjugates before the
\* outer product.
promote_conj(v) == K_conj(v)

\* DensityMatrixCircuit._cast_initial_state. Reading state.shape fails on an
\* object without that attribute; K.outer on an object of a foreign type
\* either converts it to a backend tensor or raises (converts).
DensityMatrixCircuit_cast_initial_state(circ, state, converts) ==
    IF ~state.has_shape
    THEN [error |-> "AttributeError", state |-> NoneT]
    ELSE IF state.shape = circ.shapes.VECTOR
    THEN IF ~isTensorType(state) /\ ~converts
         THEN [error |-> "BackendError", state |-> NoneT]
         ELSE Circuit_cast_initial_state(
                Tensor("backend", TRUE,
                       <<state.shape[1], state.shape[1]>>,
                       K_outer(state.data, promote_conj(state.data))))
    ELSE Circuit_cast_initial_state(state)

cast_initial_state(circ, state, converts) ==
    IF circ.cls = "DensityMatrixCircuit"
    THEN DensityMatrixCircuit_cast_initial_state(circ, state, converts)
    ELSE Circuit_cast_initial_state(state)

\* A Circuit.get_initial_state without the shape check.
check_shape_skipped(circ, cast) == cast

\* Circuit.get_initial_state on a given state, after the cast: the shape
\* check.
check_shape(circ, cast) ==
    IF cast.error # None THEN cast
    ELSE IF circ.check_initial_state_shape
            /\ cast.state.shape # circ.shapes.FLAT
    THEN [error |-> "ValueError", state |-> NoneT]
    ELSE cast

\* A get_initial_state that, given no state, resumes from the final state
\* the previous execution left.
get_initial_state_resumes(circ, state, converts) ==
    IF state = NoneT
    THEN [error |-> None,
          state |-> IF circ.final_state # NoneT THEN circ.final_state
                    ELSE K_initial_state(circ.nqubits,
                                         circ.cls = "DensityMatrixCircuit")]
    ELSE check_shape(circ, cast_initial_state(circ, state, converts))

\* Circuit.get_initial_state: the state to start from, or the error.
get_initial_state(circ, state, converts) ==
    IF state = NoneT
    THEN [error |-> None,
          state |-> K_initial_state(circ.nqubits,
                                    circ.cls = "DensityMatrixCircuit")]
    ELSE check_shape(circ, cast_initial_state(circ, state, converts))

----------------------------------------------------------------------------
(* Execution *)

\* What may go wrong while the backend runs a circuit: the call of the
\* gate at queue position `at` raises (an error of the gate, or the
\* backend's out-of-memory error), or the backend runs out of memory while
\* it sets up the state (at = 0).
NoFault == [error |-> None, at |-> 0]

Faults(circ) ==
    {NoFault}
    \cup {[error |-> "OOM", at |-> 0]}
    \cup {[error |-> e, at |-> i] :
            e \in {"GateError", "OOM"}, i \in 1..Len(circ.queue)}

\* What the channels of the queue draw in one run: one value per queue
\* position (0 where the gate is not a channel, and in a density-matrix
\* circuit, where a channel acts on the matrix without sampling).
Draws(circ) ==
    {d \in [1..Len(circ.queue) -> {0, 1}] :
        \A i \in 1..Len(circ.queue) :
            (gates[circ.queue[i]].kind # "channel" \/ circ.density_matrix)
                => d[i] = 0}

\* gate(state): the state the call returns. A callback gate returns the
\* state it was given.
apply_gate(gate, state, draw) ==
    IF gate.kind = "callback" THEN state
    ELSE [state EXCEPT !.ops = @ \o GateAction(gate, draw)]

\* callback(state): the value a callback observes on a state.
callback_value(state) == [data |-> state.data, ops |-> state.ops]

\* gate(state) of a callback gate in eager mode: the value of the callback
\* on the state is appended to the callback's history at once (recorded:
\* what the histories gained since the run began).
callback_gate_call(gate, state, recorded) ==
    IF gate.kind = "callback"
    THEN [recorded EXCEPT ![gate.callback] =
                              Append(@, callback_value(state))]
    ELSE recorded

\* Circuit._eager_execute from queue position k on: the state after the
\* queue, or the error of the gate call that raised, the number of gate
\* calls that returned and what the callback gates recorded.
RECURSIVE eager_execute(_, _, _, _, _, _)
eager_execute(circ, state, k, fault, draws, recorded) ==
    IF k > Len(circ.queue)
    THEN [error |-> None, state |-> state, applied |-> k - 1,
          recorded |-> recorded]
    ELSE IF fault.error # None /\ fault.at = k
    THEN [error |-> fault.error, state |-> NoneT, applied |-> k - 1,
          recorded |-> recorded]
    ELSE eager_execute(circ,
                       apply_gate(gates[circ.queue[k]], state, draws[k]),
                       k + 1, fault, draws,
                       callback_gate_call(gates[circ.queue[k]], state,
                                          recorded))

\* A compiled run that evaluates the callback and drops the value.
callback_results_dropped(gate, state, callback_results) == callback_results

\* Circuit._execute_for_compile at a callback gate: the value of the
\* callback on the state is appended to the results kept for the callback.
callback_results_append(gate, state, callback_results) ==
    [callback_results EXCEPT ![gate.callback] =
                                 Append(@, callback_value(state))]

\* Circuit._execute_for_compile, run by the compiled handle: a callback gate
\* is evaluated on the state and leaves it as it is. The results of the
\* callbacks are returned with the state; a run that raises returns
\* nothing.
RECURSIVE execute_for_compile(_, _, _, _, _, _)
execute_for_compile(circ, state, k, fault, draws, callback_results) ==
    IF k > Len(circ.queue)
    THEN [error |-> None, state |-> state, applied |-> k - 1,
          recorded |-> callback_results]
    ELSE IF fault.error # None /\ fault.at = k
    THEN [error |-> fault.error, state |-> NoneT, applied |-> k - 1,
          recorded |-> NoRecorded]
    ELSE IF gates[circ.queue[k]].kind = "callback"
    THEN execute_for_compile(circ, state, k + 1, fault, draws,
                             callback_results_append(gates[circ.queue[k]],
                                                     state,
                                                     callback_results))
    ELSE execute_for_compile(circ,
                       apply_gate(gates[circ.queue[k]], state, draws[k]),
                       k + 1, fault, draws, callback_results)

Repeat(e, n) == [k \in 1..n |-> e]

\* A Circuit._execute without the assignment on entry: self._final_state
\* keeps what the previous execution left.
execute_keeps(circ) == circ.final_state

\* What Circuit._execute assigns to self._final_state before it resolves
\* the initial state.
execute_reset(circ) == NoneT

\* Circuit._execute leaving by an exception: self._final_state keeps the
\* value assigned on entry.
execute_raise(circ, error, events) ==
    [error |-> error, state |-> NoneT, final_state |-> execute_reset(circ),
     events |-> events, recorded |-> NoRecorded]

\* A Circuit._execute that keeps the state in the shape the gates work on.
execute_finish_unflattened(circ, run) ==
    IF run.error # None
    THEN [execute_raise(circ, run.error,
                        <<"reset", "init">> \o Repeat("gate", run.applied))
            EXCEPT !.recorded = run.recorded]
    ELSE [error |-> None,
          state |-> run.state,
          final_state |-> run.state,
          events |-> <<"reset", "init">> \o Repeat("gate", run.applied)
                     \o <<"set">>,
          recorded |-> run.recorded]

\* Circuit._execute after the queue was run: the callbacks' histories are
\* extended with the results of a compiled run (an eager run has extended
\* them gate by gate, also when it raises), the state is reshaped to the
\* flat shape and kept as self._final_state.
execute_finish(circ, run) ==
    IF run.error # None
    THEN [execute_raise(circ, run.error,
                        <<"reset", "init">> \o Repeat("gate", run.applied))
            EXCEPT !.recorded = run.recorded]
    ELSE [error |-> None,
          state |-> IF ~K.custom_gates
                    THEN K_reshape(run.state, circ.shapes.FLAT)
                    ELSE run.state,
          final_state |-> IF ~K.custom_gates
                          THEN K_reshape(run.state, circ.shapes.FLAT)
                          ELSE run.state,
          events |-> <<"reset", "init">> \o Repeat("gate", run.applied)
                     \o <<"set">>,
          recorded |-> run.recorded]

\* Circuit._execute from the resolved initial state on: the reshape to the
\* tensor shape and the run of the queue, eager or compiled.
execute_run(circ, state, fault, draws) ==
    IF circ.compiled_execute = None
    THEN eager_execute(circ, state, 1, fault, draws, NoRecorded)
    ELSE execute_for_compile(circ, state, 1, fault, draws, NoRecorded)

execute_from(circ, init, fault, draws) ==
    IF init.error # None
    THEN execute_raise(circ, init.error, <<"reset">>)
    ELSE IF fault.error # None /\ fault.at = 0
    THEN execute_raise(circ, fault.error, <<"reset", "init">>)
    ELSE execute_finish(circ,
           execute_run(circ,
                       IF ~K.custom_gates
                       THEN K_reshape(init.state, circ.shapes.TENSOR)
                       ELSE init.state,
                       fault, draws))

\* Circuit._execute: the error or the final state, the value of
\* self._final_state after it, and its events in order.
execute_(circ, initial_state, converts, fault, draws) ==
    execute_from(circ, get_initial_state(circ, initial_state, converts),
                 fault, draws)

\* A device context that is left only when _execute returns.
device_context_held(r) ==
    [error |-> IF r.error = "OOM" THEN "RuntimeError" ELSE r.error,
     oom |-> r.error = "OOM",
     state |-> r.state,
     final_state |-> r.final_state,
     events |-> <<"enter">> \o r.events
                \o (IF r.error = None THEN <<"exit">> ELSE <<>>),
     recorded |-> r.recorded]

\* Circuit._device_execute around the outcome r of _execute: the device
\* context is entered before and left after it; the backend's out-of-memory
\* error becomes a RuntimeError naming the device.
device_context(r) ==
    [error |-> IF r.error = "OOM" THEN "RuntimeError" ELSE r.error,
     oom |-> r.error = "OOM",
     state |-> r.state,
     final_state |-> r.final_state,
     events |-> <<"enter">> \o r.events \o <<"exit">>,
     recorded |-> r.recorded]

\* A _device_execute that runs _execute again after an out-of-memory error.
device_execute_retries(circ, initial_state, converts, fault, draws) ==
    IF fault.error = "OOM"
    THEN device_context(execute_(circ, initial_state, converts, NoFault,
                                 draws))
    ELSE device_context(execute_(circ, initial_state, converts, fault,
                                 draws))

\* Circuit._device_execute
device_execute(circ, initial_state, converts, fault, draws) ==
    device_context(execute_(circ, initial_state, converts, fault, draws))

\* Histories h followed by the values rec, callback by callback.
Extend(h, rec) == [cb \in CallbackIds |-> h[cb] \o rec[cb]]

\* The inputs of n runs of one execute call in which fault f strikes run
\* fs: what the channels draw in each run (the call ends at the first run
\* that fails, and a run at the gate call that fails: nothing is drawn
\* after it).
RunsWith(circ, n, f, fs) ==
    {[k \in 1..n |-> [fault |-> IF k = fs THEN f ELSE NoFault,
                      draws |-> dr[k]]] :
        dr \in {x \in [1..n -> Draws(circ)] :
                  f.error # None =>
                    /\ \A k \in (fs + 1)..n : \A i \in 1..Len(circ.queue) :
                          x[k][i] = 0
                    /\ \A i \in 1..Len(circ.queue) :
                          i >= f.at => x[fs][i] = 0}}

\* The inputs of the n runs of one execute call.
RunInputs(circ, n) ==
    IF n = 0 THEN {<<>>}
    ELSE UNION {RunsWith(circ, n, f, fs) : f \in Faults(circ), fs \in 1..n}

\* measurement_gate(state, nshots): nshots samples of the state.
measure(circ, state, nshots) ==
    [kind |-> "GateResult", gate |-> circ.measurement_gate,
     state |-> state, nshots |-> nshots]

\* A loop body that keeps the final state of the first run of the call.
repeated_step_keeps_first(circ, acc, r) ==
    IF r.error # None
    THEN [acc EXCEPT !.error = r.error, !.oom = r.oom,
                     !.final_state = r.final_state,
                     !.events = @ \o r.events,
                     !.recorded = Extend(@, r.recorded)]
    ELSE IF circ.measurement_gate # 0
    THEN [acc EXCEPT !.results = Append(@, measure(circ, r.state, <<1>>)),
                     !.final_state = IF acc.results = <<>>
                                     THEN r.final_state ELSE @,
                     !.events = @ \o r.events \o <<"sample">>,
                     !.recorded = Extend(@, r.recorded)]
    ELSE [acc EXCEPT !.results = Append(@, r.state),
                     !.final_state = IF acc.results = <<>>
                                     THEN r.final_state ELSE @,
                     !.events = @ \o r.events,
                     !.recorded = Extend(@, r.recorded)]

\* A loop body that keeps only the latest result instead of appending it.
repeated_step_overwrites(circ, acc, r) ==
    IF r.error # None
    THEN [acc EXCEPT !.error = r.error, !.oom = r.oom,
                     !.final_state = r.final_state,
                     !.events = @ \o r.events,
                     !.recorded = Extend(@, r.recorded)]
    ELSE [acc EXCEPT !.results = <<r.state>>,
                     !.final_state = r.final_state,
                     !.events = @ \o r.events,
                     !.recorded = Extend(@, r.recorded)]

\* The body of the loop of Circuit._repeated_execute after the run r of
\* _device_execute: the state is sampled once, or copied, into the results.
repeated_step(circ, acc, r) ==
    IF r.error # None
    THEN [acc EXCEPT !.error = r.error, !.oom = r.oom,
                     !.final_state = r.final_state,
                     !.events = @ \o r.events,
                     !.recorded = Extend(@, r.recorded)]
    ELSE IF circ.measurement_gate # 0
    THEN [acc EXCEPT !.results = Append(@, measure(circ, r.state, <<1>>)),
                     !.final_state = r.final_state,
                     !.events = @ \o r.events \o <<"sample">>,
                     !.recorded = Extend(@, r.recorded)]
    ELSE [acc EXCEPT !.results = Append(@, r.state),
                     !.final_state = r.final_state,
                     !.events = @ \o r.events,
                     !.recorded = Extend(@, r.recorded)]

\* The loop of Circuit._repeated_execute from run k on: one
\* _device_execute per run; an error ends the loop.
RECURSIVE repeated_loop(_, _, _, _, _, _)
repeated_loop(circ, initial_state, converts, runs, k, acc) ==
    IF k > Len(runs) \/ acc.error # None THEN acc
    ELSE repeated_loop(circ, initial_state, converts, runs, k + 1,
           repeated_step(circ, acc,
             device_execute([circ EXCEPT !.final_state = acc.final_state],
                            initial_state, converts,
                            runs[k].fault, runs[k].draws)))

\* Circuit._repeated_execute after the loop: the results are stacked and
\* returned, or wrapped in a CircuitResult. K.stack of an empty list raises
\* on some backends and returns an empty tensor on others (stack_raises).
repeated_return(circ, r, stack_raises) ==
    IF r.error # None
    THEN [error |-> r.error, oom |-> r.oom, ret |-> NoRet,
          final_state |-> r.final_state, events |-> r.events,
          recorded |-> r.recorded]
    ELSE IF r.results = <<>> /\ stack_raises
    THEN [error |-> "ValueError", oom |-> FALSE, ret |-> NoRet,
          final_state |-> r.final_state, events |-> r.events,
          recorded |-> r.recorded]
    ELSE [error |-> None, oom |-> FALSE,
          ret |-> IF circ.measurement_gate = 0
                  THEN [kind |-> "stack", states |-> r.results]
                  ELSE [kind |-> "CircuitResult",
                        tuples |-> circ.measurement_tuples,
                        samples |-> r.results],
          final_state |-> r.final_state,
          events |-> Append(r.events, "stack"),
          recorded |-> r.recorded]

\* Circuit._repeated_execute
repeated_execute(circ, initial_state, converts, runs, stack_raises) ==
    repeated_return(circ,
        repeated_loop(circ, initial_state, converts, runs, 1,
                      [error |-> None, oom |-> FALSE, results |-> <<>>,
                       final_state |-> circ.final_state, events |-> <<>>,
                       recorded |-> NoRecorded]),
        stack_raises)

\* An execute that repeats whenever nshots is given, flagged or not.
takes_repeated_unflagged(circ, nshots) == nshots # <<>>

\* Whether Circuit.execute takes the repeated-execution branch.
takes_repeated(circ, nshots) == nshots # <<>> /\ circ.repeated_execution

\* An execute that samples whenever there is a measurement gate, nshots
\* given or not.
returns_state_unmeasured(circ, nshots) == circ.measurement_gate = 0

\* Whether Circuit.execute returns the state rather than samples of it.
returns_state(circ, nshots) == circ.measurement_gate = 0 \/ nshots = <<>>

\* Circuit.execute after the run r of _device_execute: the state is
\* returned, or sampled nshots times by the measurement gate.
execute_return(circ, nshots, r) ==
    IF r.error # None
    THEN [error |-> r.error, oom |-> r.oom, ret |-> NoRet,
          final_state |-> r.final_state, events |-> r.events,
          recorded |-> r.recorded]
    ELSE IF returns_state(circ, nshots)
    THEN [error |-> None, oom |-> FALSE,
          ret |-> [kind |-> "state", state |-> r.state],
          final_state |-> r.final_state, events |-> r.events,
          recorded |-> r.recorded]
    ELSE [error |-> None, oom |-> FALSE,
          ret |-> [kind |-> "CircuitResult",
                   tuples |-> circ.measurement_tuples,
                   samples |-> <<measure(circ, r.state, nshots)>>],
          final_state |-> r.final_state,
          events |-> Append(r.events, "sample"),
          recorded |-> r.recorded]

\* Circuit.execute
execute(circ, initial_state, nshots, converts, runs, stack_raises) ==
    IF takes_repeated(circ, nshots)
    THEN repeated_execute([circ EXCEPT !.final_state = NoneT],
                          initial_state, converts, runs, stack_raises)
    ELSE execute_return(circ, nshots,
           device_execute(circ, initial_state, converts,
                          runs[1].fault, runs[1].draws))

NShots == {<<>>} \cup {<<n>> : n \in 0..MaxShots}

\* The state after circuit.execute(...) returned or raised r: the final
\* state it left and the values its callback gates recorded.
Executed(c, initial_state, nshots, r) ==
    /\ circuits' = [circuits EXCEPT
                      ![c].final_state = r.final_state,
                      ![c].executed =
                          @ \/ (/\ r.error = None
                                /\ \E i \in 1..Len(r.events) :
                                     r.events[i] = "set")]
    /\ result' = [Res("execute", c) EXCEPT
                    !.init = initial_state, !.nshots = nshots,
                    !.error = r.error, !.oom = r.oom, !.ret = r.ret,
                    !.events = r.events, !.recorded = r.recorded]
    /\ callbacks' = Extend(callbacks, r.recorded)
    /\ UNCHANGED <<K, gates, tensors, config>>

\* circuit.execute(initial_state, nshots), or circuit(initial_state, nshots)
Execute(c, initial_state, nshots, converts, runs, stack_raises) ==
    /\ c \in Live
    /\ Executed(c, initial_state, nshots,
                execute(circuits[c], initial_state, nshots, converts, runs,
                        stack_raises))

\* A final_state property without its guard: it returns whatever
\* self._final_state holds.
final_state_unguarded(circ) == FALSE

\* The final_state property: the guard that raises RuntimeError.
final_state_raises(circ) == circ.final_state = NoneT

\* circuit.final_state
FinalState(c) ==
    /\ c \in Live
    /\ IF final_state_raises(circuits[c])
       THEN result' = [Res("final_state", c) EXCEPT !.error = "RuntimeError"]
       ELSE result' = [Res("final_state", c) EXCEPT
                         !.ret = [kind |-> "state",
                                  state |-> circuits[c].final_state]]
    /\ UNCHANGED <<K, circuits, gates, tensors, callbacks, config>>

\* An in-place update of the parameter tensor of a trainable gate (an
\* optimizer step on the variable the gate holds).
AssignParameter(g, v) ==
    /\ g \in GateIds
    /\ gates[g].kind = "param" /\ gates[g].trainable
    /\ tensors[gates[g].param] # v
    /\ tensors' = [tensors EXCEPT ![gates[g].param] = v]
    /\ result' = [Res("assign", 0) EXCEPT !.gate = g]
    /\ UNCHANGED <<K, circuits, gates, callbacks, config>>

----------------------------------------------------------------------------
(* The specifications *)

Classes == {"Circuit", "DensityMatrixCircuit"}

\* Whether DensityMatrixCircuit._cast_initial_state hands an object of a
\* foreign type to K.outer.
Promoted(circ, initial_state) ==
    /\ circ.cls = "DensityMatrixCircuit"
    /\ initial_state # NoneT
    /\ initial_state.ttype = "foreign"
    /\ initial_state.has_shape
    /\ initial_state.shape = circ.shapes.VECTOR

\* The runs without faults, every channel drawing 0.
Quiet(circ, n) ==
    [k \in 1..n |-> [fault |-> NoFault,
                     draws |-> [i \in 1..Len(circ.queue) |-> 0]]]

\* The number of runs of the queue an execute call asks for.
Runs(circ, nshots) == IF takes_repeated(circ, nshots) THEN nshots[1] ELSE 1

\* circuit.execute(initial_state, nshots) under every outcome of the
\* backend: what the channels draw, which call fails, whether a foreign
\* object converts, whether stacking nothing raises. (No gate is called
\* when the initial state is rejected, so no fault is drawn then.)
ExecuteSome(c, initial_state, nshots) ==
    /\ c \in Live
    /\ \E converts \in (IF Promoted(circuits[c], initial_state)
                        THEN BOOLEAN ELSE {TRUE}),
          stack_raises \in (IF takes_repeated(circuits[c], nshots)
                               /\ nshots = <<0>>
                            THEN BOOLEAN ELSE {FALSE}) :
         \E runs \in (IF get_initial_state(circuits[c], initial_state,
                                           converts).error # None
                      THEN {Quiet(circuits[c], Runs(circuits[c], nshots))}
                      ELSE RunInputs(circuits[c],
                                     Runs(circuits[c], nshots))) :
            Execute(c, initial_state, nshots, converts, runs, stack_raises)

\* The gates of the execution scenarios: a fixed gate, a channel and the
\* measurement gate.
ExecGates == {g \in GateIds : gates[g].name \in {"H", "Noise", "M"}}

\* Execution life cycle of one circuit of one or two qubits: construction,
\* queueing, compilation, execution with every input and failure, and reads
\* of the final state.
Next ==
    \/ \E cls \in Classes, n \in 1..MaxQubits : NewCircuit(1, cls, n)
    \/ \E g \in ExecGates : Add(1, g)
    \/ Compile(1)
    \/ /\ 1 \in Live
       /\ \E initial_state \in InitialStates(circuits[1].nqubits),
             nshots \in NShots :
            ExecuteSome(1, initial_state, nshots)
    \/ FinalState(1)

Spec == Init /\ [][Next]_vars

\* The gates of the qubit-count scenarios: a fixed gate and a trainable
\* parametrized gate.
NqGates == {g \in GateIds : gates[g].name \in {"H", "RX"}}

\* Circuits of several sizes sharing gate objects: construction, queueing
\* (set_nqubits, add, _add_layer), copies and fusion.
NextNq ==
    \/ \E c \in CircuitIds, n \in 1..MaxQubits : NewCircuit(c, "Circuit", n)
    \/ \E c \in CircuitIds, g \in NqGates : SetNqubits(c, g)
    \/ \E c \in CircuitIds, g \in NqGates : Add(c, g)
    \/ \E c \in CircuitIds, g \in NqGates, h \in NqGates :
         \/ AddLayer(c, <<g>>, <<h>>)
         \/ AddLayer(c, <<g, h>>, <<>>)
    \/ \E c \in CircuitIds, d \in CircuitIds : FuseCopy(c, d)
    \/ \E c \in CircuitIds, d \in CircuitIds : Fuse(c, d)

SpecNq == Init /\ [][NextNq]_vars

\* The gates of the copy scenarios: a trainable and a non-trainable
\* parametrized gate and the measurement gate.
CopyGates == {g \in GateIds : gates[g].name \in {"RX", "RY", "M"}}

\* The initial states of the copy scenarios: the default one.
CopyStates == {NoneT}

\* A circuit of one qubit and the circuit copied or fused from it: the
\* original is built, compiled, executed (with every failure) and read; the
\* copy is compiled, executed and read; the parameter tensors of trainable
\* gates are updated in place.
NextCopy ==
    \/ NewCircuit(1, "Circuit", 1)
    \/ \E g \in CopyGates : Add(1, g)
    \/ \E d \in CircuitIds : FuseCopy(1, d)
    \/ \E d \in CircuitIds : Fuse(1, d)
    \/ \E c \in CircuitIds : Compile(c)
    \/ \E c \in CircuitIds, initial_state \in CopyStates :
         ExecuteSome(c, initial_state, <<>>)
    \/ \E c \in CircuitIds : FinalState(c)
    \/ \E g \in GateIds, v \in {0, 1} : AssignParameter(g, v)

SpecCopy == Init /\ [][NextCopy]_vars

\* The gates of the callback scenarios: a fixed gate, a channel and two
\* callback gates, each with a callback of its own.
CallbackGates == {g \in GateIds : gates[g].name \in {"H", "Noise", "Cb1", "Cb2"}}

\* A state-vector circuit of one qubit with callback gates in its queue (a
\* gate object may be queued more than once): it is built, compiled or not,
\* and executed from the default state with every nshots and failure, while
\* no callback's history holds MaxHistory values yet.
NextCallback ==
    \/ NewCircuit(1, "Circuit", 1)
    \/ /\ 1 \in Live
       /\ Len(circuits[1].queue) < MaxCallbackQueue
       /\ \E g \in CallbackGates : AddGate(1, g)
    \/ Compile(1)
    \/ /\ 1 \in Live
       /\ \A cb \in CallbackIds : Len(callbacks[cb]) < MaxHistory
       /\ \E nshots \in NShots : ExecuteSome(1, NoneT, nshots)

SpecCallback == Init /\ [][NextCallback]_vars

----------------------------------------------------------------------------
(* Construction of the TensorFlow backend *)

\* The state in which a call on its own is made with the environment and
\* arguments inp: no circuit exists.
InitCall(inp) ==
    /\ K \in {[custom_gates |-> b] : b \in BOOLEAN}
    /\ circuits = [c \in CircuitIds |-> NoCircuit]
    /\ gates = UserGates
    /\ tensors = <<0, 0>>
    /\ callbacks = NoRecorded
    /\ OMP_NUM_THREADS = PyInt(1)
    /\ input = inp
    /\ result = NoResult

\* A logical device of TensorFlow: its name is made of its type and index.
LogicalDevice(device_type, index) ==
    [name |-> <<device_type, index>>, device_type |-> device_type]

\* The lists tf.config.list_logical_devices(device_type) may return: up to
\* MaxDevices devices of the type, in any order.
DeviceLists(device_type) ==
    UNION {{l \in [1..n -> {LogicalDevice(device_type, i) : i \in 0..MaxDevices}] :
              \A i \in 1..n, j \in 1..n : i # j => l[i] # l[j]} :
           n \in 0..MaxDevices}

\* tf.config.list_logical_devices(device_type) in environment env.
list_logical_devices(env, device_type) ==
    IF device_type = "CPU" THEN env.CPU ELSE env.GPU

\* A constructor that prefers the first CPU device to the GPU devices.
TensorflowBackend_init_prefers_cpu(cpu_devices, gpu_devices) ==
    IF cpu_devices # <<>>
    THEN [error |-> None, default_device |-> cpu_devices[1].name]
    ELSE IF gpu_devices # <<>>
    THEN [error |-> None, default_device |-> gpu_devices[1].name]
    ELSE [error |-> "RuntimeError", default_device |-> None]

\* TensorflowBackend.__init__: the default device it selects, or the error.
TensorflowBackend_init(cpu_devices, gpu_devices) ==
    IF gpu_devices # <<>>
    THEN [error |-> None, default_device |-> gpu_devices[1].name]
    ELSE IF cpu_devices # <<>>
    THEN [error |-> None, default_device |-> cpu_devices[1].name]
    ELSE [error |-> "RuntimeError", default_device |-> None]

\* TensorflowBackend() in the environment drawn.
ConstructBackend ==
    /\ input.of = "TensorflowBackend"
    /\ result.op = "none"
    /\ LET r == TensorflowBackend_init(list_logical_devices(input, "CPU"),
                                       list_logical_devices(input, "GPU"))
       IN result' = [Res("TensorflowBackend", 0) EXCEPT
                       !.error = r.error,
                       !.ret = IF r.error # None THEN NoRet
                               ELSE [kind |-> "TensorflowBackend",
                                     name |-> "tensorflow",
                                     default_device |-> r.default_device]]
    /\ UNCHANGED <<K, circuits, gates, tensors, callbacks, config>>

InitBackend ==
    \E cpu \in DeviceLists("CPU"), gpu \in DeviceLists("GPU") :
        InitCall([of |-> "TensorflowBackend", CPU |-> cpu, GPU |-> gpu])

NextBackend == ConstructBackend

\* The backend is constructed once in every environment of up to
\* MaxDevices CPU and GPU devices.
SpecBackend == InitBackend /\ [][NextBackend]_vars

----------------------------------------------------------------------------
(* Gate set tomography *)

\* The binding of the arguments of a Python call to the parameters of the
\* function called: args are the positional arguments, kwargs the keyword
\* arguments by name. TypeError when there are too many positional
\* arguments, when a parameter gets a value both ways, or when a keyword
\* names no parameter.
bind_arguments(params, args, kwargs) ==
    IF \/ Len(args) > Len(params)
       \/ \E i \in 1..Len(args) : i <= Len(params) /\ params[i] \in DOMAIN kwargs
       \/ \E name \in DOMAIN kwargs : \A i \in 1..Len(params) : params[i] # name
    THEN [error |-> "TypeError"]
    ELSE [error |-> None,
          positional |-> Len(args),
          keyword |-> DOMAIN kwargs]

\* The value bound to the parameter at position i of a call that bound
\* (default: the parameter's default value).
bound_value(params, args, kwargs, i, default) ==
    IF i <= Len(args) THEN args[i]
    ELSE IF params[i] \in DOMAIN kwargs THEN kwargs[params[i]]
    ELSE default

\* The base-4 digits of index j over nqubits positions, the first qubit's
\* first: the element j of itertools.product(list, repeat=nqubits) takes
\* the entries of the list at these digits.
RECURSIVE product_digits(_, _)
product_digits(j, nqubits) ==
    IF nqubits = 0 THEN <<>>
    ELSE Append(product_digits(j \div 4, nqubits - 1), j % 4)

\* _gates(nqubits)[k], _measurements(nqubits)[j], _observables(nqubits)[j]
gates_(nqubits, k) ==
    [q \in 1..nqubits |->
        << <<"I">>, <<"X">>, <<"H">>, <<"H", "S">> >>[product_digits(k, nqubits)[q] + 1]]

measurements_(nqubits, j) ==
    [q \in 1..nqubits |->
        <<"Z", "X", "Y", "Z">>[product_digits(j, nqubits)[q] + 1]]

observables_(nqubits, j) ==
    [q \in 1..nqubits |->
        <<"I", "Z", "Z", "Z">>[product_digits(j, nqubits)[q] + 1]]

\* gate=None, and the gates tomography is asked for: one on one qubit, one
\* on two (nqubits stands for len(gate.qubits)).
NoGate == [name |-> "None", nqubits |-> 0]

TomographyGates ==
    {NoGate, [name |-> "X", nqubits |-> 1], [name |-> "CNOT", nqubits |-> 2]}

\* The circuit _gate_tomography builds for the pair (j, k): the k-th state
\* is prepared, the gate (NoGate: no gate) is applied and the j-th
\* measurement basis is measured.
tomography_circuit(nqubits, gate, j, k) ==
    [nqubits |-> nqubits, density_matrix |-> TRUE,
     prepare_state |-> gates_(nqubits, k), gate |-> gate,
     measurement_basis |-> measurements_(nqubits, j)]

\* _expectation_value(circuit, j, nshots, backend): 1.0 without an execution
\* when j is 0, else the expectation of the j-th observable from the
\* samples of an execution of the circuit.
expectation_value(circuit, j, nshots, backend) ==
    IF circuit.nqubits \notin {1, 2}
    THEN [error |-> "ValueError", executed |-> 0]
    ELSE IF j = 0
    THEN [error |-> None, executed |-> 0,
          value |-> [from |-> "constant 1.0", circuit |-> <<>>,
                     observable |-> <<>>, nshots |-> 0]]
    ELSE [error |-> None, executed |-> 1,
          value |-> [from |-> "samples", circuit |-> <<circuit>>,
                     observable |-> observables_(circuit.nqubits, j),
                     nshots |-> nshots]]

\* The parameters of _expectation_value, and the default value of nshots.
expectation_value_params == <<"circuit", "j", "nshots", "backend">>

DefaultShots == 10000

\* The call of _expectation_value in the inner loop of _gate_tomography:
\* _expectation_value(new_circ, k, j, nshots, backend=backend).
expectation_value_call(new_circ, k, j, nshots, backend) ==
    LET params == expectation_value_params
        args == <<new_circ, k, j, nshots>>
        kwargs == [name \in {"backend"} |-> backend]
    IN IF bind_arguments(params, args, kwargs).error # None
       THEN [error |-> bind_arguments(params, args, kwargs).error,
             executed |-> 0]
       ELSE expectation_value(
              bound_value(params, args, kwargs, 1, new_circ),
              bound_value(params, args, kwargs, 2, 0),
              bound_value(params, args, kwargs, 3, DefaultShots),
              bound_value(params, args, kwargs, 4, None))

\* The loops of _gate_tomography over k (outer) and j (inner) from the pair
\* at position p on (p = k * 4^nqubits + j): the matrix filled so far as a
\* function of <<j, k>>, the number of circuit executions and the number of
\* _expectation_value calls made; an error ends the loops.
RECURSIVE gate_tomography_loop(_, _, _, _, _, _)
gate_tomography_loop(nqubits, gate, nshots, backend, p, acc) ==
    LET dim == Pow2(2 * nqubits)
        k == p \div dim
        j == p % dim
        e == expectation_value_call(tomography_circuit(nqubits, gate, j, k),
                                    k, j, nshots, backend)
    IN IF p >= dim * dim THEN acc
       ELSE IF e.error # None
       THEN [acc EXCEPT !.error = e.error, !.calls = @ + 1]
       ELSE gate_tomography_loop(nqubits, gate, nshots, backend, p + 1,
              [acc EXCEPT !.matrix = [jk \in DOMAIN @ \cup {<<j, k>>} |->
                                         IF jk = <<j, k>> THEN e.value
                                         ELSE @[jk]],
                          !.calls = @ + 1,
                          !.executed = @ + e.executed])

\* _gate_tomography(nqubits, gate, nshots, backend=backend), without noise
\* model and register inversion.
gate_tomography(nqubits, gate, nshots, backend) ==
    IF nqubits \notin {1, 2}
    THEN [error |-> "ValueError", matrix |-> <<>>, calls |-> 0,
          executed |-> 0]
    ELSE IF gate # NoGate /\ nqubits # gate.nqubits
    THEN [error |-> "ValueError", matrix |-> <<>>, calls |-> 0,
          executed |-> 0]
    ELSE gate_tomography_loop(nqubits, gate, nshots, backend, 0,
                              [error |-> None, matrix |-> <<>>, calls |-> 0,
                               executed |-> 0])

\* _gate_tomography(nqubits=..., gate=..., nshots=..., backend=...) with the
\* arguments drawn: events lists the _expectation_value calls made and the
\* circuit executions they made.
GateTomography ==
    /\ input.of = "_gate_tomography"
    /\ result.op = "none"
    /\ LET r == gate_tomography(input.nqubits, input.gate, input.nshots,
                                "backend")
       IN result' = [Res("_gate_tomography", 0) EXCEPT
                       !.error = r.error,
                       !.ret = IF r.error # None THEN NoRet
                               ELSE [kind |-> "ndarray",
                                     matrix |-> r.matrix],
                       !.events = Repeat("_expectation_value", r.calls)
                                  \o Repeat("execute_circuit", r.executed)]
    /\ UNCHANGED <<K, circuits, gates, tensors, callbacks, config>>

InitTomography ==
    \E nqubits \in 0..MaxTomographyQubits, gate \in TomographyGates,
       nshots \in {1, 2, DefaultShots} :
        InitCall([of |-> "_gate_tomography", nqubits |-> nqubits,
                  gate |-> gate, nshots |-> nshots])

NextTomography == GateTomography

\* Gate set tomography is run once for every qubit count up to
\* MaxTomographyQubits, without a gate or with a gate on one or two qubits.
SpecTomography == InitTomography /\ [][NextTomography]_vars

----------------------------------------------------------------------------
(* Double-bracket iteration: the gradient over Pauli-Z coefficients *)

\* Six times the entry of grad for one operator in gradient_Pauli:
\*   s^3/3 da + s^2/2 db + 2 s dc + s^2 ds a + s ds b + 2 ds c
\* (times six, so that the thirds and halves stay integers).
grad_entry(s, a, b, c, da, db, dc, ds) ==
    2 * s * s * s * da + 3 * s * s * db + 12 * s * dc
      + 6 * s * s * ds * a + 6 * s * ds * b + 12 * ds * c

\* What gradient_Pauli does with the ds that ds_di_Pauli returned before it
\* uses it.
gradient_ds(use_ds, ds) == IF use_ds = TRUE THEN 0 ELSE ds

\* gradient_Pauli: the step s that choose_step gave and the entries of grad
\* before the normalisation, times six. d holds, per Pauli operator, the
\* derivatives da, db, dc, ds that ds_di_Pauli returns for it; coef the
\* last three coefficients a, b, c of the expansion.
gradient_Pauli(d, coef, s, use_ds) ==
    [s |-> s,
     grad |-> [i \in 1..Len(d) |->
                 grad_entry(s, coef.a, coef.b, coef.c,
                            d[i].da, d[i].db, d[i].dc,
                            gradient_ds(use_ds, d[i].ds))]]

\* gradient_Pauli(dbi_object, d, pauli_operator_dict, use_ds=...) with the
\* arguments drawn.
GradientPauli ==
    /\ input.of = "gradient_Pauli"
    /\ result.op = "none"
    /\ LET r == gradient_Pauli(input.derivatives, input.coef, input.s,
                               input.use_ds)
       IN result' = [Res("gradient_Pauli", 0) EXCEPT
                       !.ret = [kind |-> "grad", grad |-> r.grad,
                                s |-> r.s]]
    /\ UNCHANGED <<K, circuits, gates, tensors, callbacks, config>>

\* The derivatives ds_di_Pauli may return for one operator.
Derivatives ==
    [da : {0, 1}, db : {0, 1}, dc : {0, 1}, ds : {0, 1, 2}]

InitGradient ==
    \E n \in 1..MaxPaulis :
      \E d \in [1..n -> Derivatives], s \in {1, 2}, b \in {0, 1},
         use_ds \in BOOLEAN :
        InitCall([of |-> "gradient_Pauli", derivatives |-> d,
                  coef |-> [a |-> 1, b |-> b, c |-> 1], s |-> s,
                  use_ds |-> use_ds])

NextGradient == GradientPauli

\* The gradient is computed once for up to MaxPaulis Pauli operators, with
\* and without use_ds.
SpecGradient == InitGradient /\ [][NextGradient]_vars

----------------------------------------------------------------------------
(* Double-bracket iteration: selection of the rotation generator *)

\* The step dbi_eval.choose_step(...) finds when no step is given (step 0
\* stands for step=None).
choose_step == 2

step_best(step) == IF step = 0 THEN choose_step ELSE step

\* A list of length n filled with v, as Python's [v] * n and np.ones(n),
\* np.zeros(n); the model's lists start at 1, Python's index i is i + 1.
Filled(n, v) == [i \in 1..n |-> v]

\* np.argmin(norms): the Python index of the first least entry.
argmin(norms) ==
    (CHOOSE i \in 1..Len(norms) :
        /\ \A j \in 1..Len(norms) : norms[i] <= norms[j]
        /\ \A j \in 1..(i - 1) : norms[j] > norms[i]) - 1

\* The loop of select_best_dbr_generator over d_list from position i on. An
\* operator d is given by the sign cs_angle_sgn finds for it (d.sgn) and by
\* the off-diagonal norm a copy of dbi_object has after the rotation with
\* sgn * d (d.norm).
RECURSIVE dbr_loop(_, _, _, _)
dbr_loop(d_list, step, i, acc) ==
    IF i > Len(d_list) THEN acc
    ELSE dbr_loop(d_list, step, i + 1,
           IF d_list[i].sgn # 0
           THEN [acc EXCEPT !.flip_list[i] = d_list[i].sgn,
                            !.optimal_steps[i] = step_best(step),
                            !.norms[i] = d_list[i].norm]
           ELSE [acc EXCEPT !.flip_list[i] = d_list[i].sgn])

\* select_best_dbr_generator before the final rotation: the three lists
\* after the loop and the canonical bracket (canonical: the off-diagonal
\* norm a copy of dbi_object has after the canonical rotation).
dbr_lists(dbi_object, d_list, step, compare_canonical, canonical) ==
    LET n == Len(d_list) + 1
        acc == dbr_loop(d_list, step, 1,
                 [norms |-> Filled(n, dbi_object.off_diagonal_norm),
                  optimal_steps |-> Filled(n, 0),
                  flip_list |-> Filled(n, 1)])
    IN IF compare_canonical = TRUE
       THEN [acc EXCEPT !.optimal_steps[n] = step_best(step),
                        !.norms[n] = canonical]
       ELSE acc

\* select_best_dbr_generator from the index found on: the canonical
\* rotation, or the rotation with flip * d_list[idx_max_loss], on a copy of
\* dbi_object; d_list[len(d_list)] raises IndexError.
dbr_rotate(dbi_object, d_list, compare_canonical, canonical, lists, idx) ==
    IF idx = Len(d_list) /\ compare_canonical = TRUE
    THEN [error |-> None, idx_max_loss |-> idx,
          step_optimal |-> lists.optimal_steps[idx + 1],
          flip |-> lists.flip_list[idx + 1],
          dbi_eval |-> [dbi_object EXCEPT !.off_diagonal_norm = canonical],
          dbi_object |-> dbi_object]
    ELSE IF idx >= Len(d_list)
    THEN [error |-> "IndexError", idx_max_loss |-> idx,
          step_optimal |-> lists.optimal_steps[idx + 1],
          flip |-> lists.flip_list[idx + 1],
          dbi_eval |-> dbi_object,
          dbi_object |-> dbi_object]
    ELSE [error |-> None, idx_max_loss |-> idx,
          step_optimal |-> lists.optimal_steps[idx + 1],
          flip |-> lists.flip_list[idx + 1],
          dbi_eval |-> [dbi_object EXCEPT !.off_diagonal_norm =
                          IF lists.flip_list[idx + 1] = 0 THEN @
                          ELSE d_list[idx + 1].norm],
          dbi_object |-> dbi_object]

\* select_best_dbr_generator
select_best_dbr_generator(dbi_object, d_list, step, compare_canonical, canonical) ==
    dbr_rotate(dbi_object, d_list, compare_canonical, canonical,
        dbr_lists(dbi_object, d_list, step, compare_canonical, canonical),
        argmin(dbr_lists(dbi_object, d_list, step, compare_canonical,
                         canonical).norms))

\* select_best_dbr_generator(dbi_object, d_list, step, compare_canonical)
\* with the arguments drawn.
SelectBestDbrGenerator ==
    /\ input.of = "select_best_dbr_generator"
    /\ result.op = "none"
    /\ LET r == select_best_dbr_generator(input.dbi_object, input.d_list,
                    input.step, input.compare_canonical, input.canonical)
       IN /\ result' = [Res("select_best_dbr_generator", 0) EXCEPT
                          !.error = r.error,
                          !.ret = IF r.error # None
                                  THEN [kind |-> "None",
                                        idx_max_loss |-> r.idx_max_loss]
                                  ELSE [kind |-> "tuple",
                                        dbi_eval |-> r.dbi_eval,
                                        idx_max_loss |-> r.idx_max_loss,
                                        step_optimal |-> r.step_optimal,
                                        flip |-> r.flip]]
          /\ input' = [input EXCEPT !.dbi_object = r.dbi_object]
    /\ UNCHANGED <<K, circuits, gates, tensors, callbacks, OMP_NUM_THREADS>>

\* The operators d_list may hold.
Operators == [sgn : {0 - 1, 0, 1}, norm : 0..MaxNorm]

InitDbr ==
    \E n \in 0..MaxOperators :
      \E d_list \in [1..n -> Operators], norm \in 1..MaxNorm,
         canonical \in 0..MaxNorm, step \in {0, 1},
         compare_canonical \in BOOLEAN :
        InitCall([of |-> "select_best_dbr_generator",
                  dbi_object |-> [off_diagonal_norm |-> norm],
                  before |-> [off_diagonal_norm |-> norm],
                  d_list |-> d_list, canonical |-> canonical, step |-> step,
                  compare_canonical |-> compare_canonical])

NextDbr == SelectBestDbrGenerator

\* The generator is selected once among up to MaxOperators operators, with
\* and without the canonical bracket, with a given step and without.
SpecDbr == InitDbr /\ [][NextDbr]_vars

----------------------------------------------------------------------------
(* The configured number of threads *)

\* isinstance(x, int): bool is a subclass of int.
isinstance_int(x) == x.type \in {"int", "bool"}

\* A set_threads that takes any integer.
set_threads_raises_no_range(num_threads) == ~isinstance_int(num_threads)

\* set_threads: the two guards that raise RuntimeError.
set_threads_raises(num_threads) ==
    \/ ~isinstance_int(num_threads)
    \/ num_threads.value < 1

\* config.set_threads(num_threads)
SetThreads(num_threads) ==
    /\ input.of # "none"
    /\ input' = [input EXCEPT !.of = "set_threads",
                              !.num_threads = num_threads]
    /\ IF set_threads_raises(num_threads)
       THEN /\ result' = [Res("set_threads", 0) EXCEPT
                            !.error = "RuntimeError"]
            /\ UNCHANGED OMP_NUM_THREADS
       ELSE /\ OMP_NUM_THREADS' = num_threads
            /\ result' = Res("set_threads", 0)
    /\ UNCHANGED <<K, circuits, gates, tensors, callbacks>>

\* config.get_threads(), as TensorflowBackend.initial_state calls it for the
\* omp_num_threads of the state it allocates.
GetThreads ==
    /\ input.of # "none"
    /\ input' = [input EXCEPT !.of = "get_threads"]
    /\ result' = [Res("get_threads", 0) EXCEPT
                    !.ret = [kind |-> "threads",
                             value |-> OMP_NUM_THREADS]]
    /\ UNCHANGED <<K, circuits, gates, tensors, callbacks, OMP_NUM_THREADS>>

\* The values OMP_NUM_THREADS may have when the module is loaded: the
\* number of physical cores psutil reports (None when it cannot tell), or
\* the integer the environment variable holds.
StartupThreads ==
    {PyObject("NoneType", 0)} \cup {PyInt(v) : v \in (0 - 1)..MaxThreads}

\* The arguments set_threads is called with: integers, booleans, and
\* objects of other types.
ThreadArguments ==
    {PyInt(v) : v \in (0 - 1)..MaxThreads}
    \cup {PyObject("bool", 0), PyObject("bool", 1)}
    \cup {PyObject("float", 2), PyObject("str", 0), PyObject("NoneType", 0)}

InitThreads ==
    /\ K \in {[custom_gates |-> b] : b \in BOOLEAN}
    /\ circuits = [c \in CircuitIds |-> NoCircuit]
    /\ gates = UserGates
    /\ tensors = <<0, 0>>
    /\ callbacks = NoRecorded
    /\ OMP_NUM_THREADS \in StartupThreads
    /\ input = [of |-> "config", startup |-> OMP_NUM_THREADS,
                num_threads |-> OMP_NUM_THREADS]
    /\ result = NoResult

NextThreads ==
    \/ \E num_threads \in ThreadArguments : SetThreads(num_threads)
    \/ GetThreads

\* The thread count is set and read any number of times.
SpecThreads == InitThreads /\ [][NextThreads]_vars

----------------------------------------------------------------------------
(* Properties *)

\* C1: on a circuit no execution of which has completed, final_state holds
\* nothing and a read of it fails with RuntimeError and returns no value,
\* whatever add, compile, fuse, copy and failed execute calls came before.
C1_FinalStateFailsBeforeFirstExecution ==
    /\ \A c \in Live :
         ~circuits[c].executed => circuits[c].final_state = NoneT
    /\ (result.op = "final_state" /\ ~circuits[result.circ].executed)
         => (result.error = "RuntimeError" /\ result.ret = NoRet)

\* C1 happens: a read fails on a fused circuit that was compiled and has
\* gates queued but never completed an execution.
C1_Witness ==
    /\ result.op = "final_state"
    /\ result.error = "RuntimeError"
    /\ ~circuits[result.circ].executed
    /\ circuits[result.circ].fusion_groups # <<>>
    /\ circuits[result.circ].compiled_execute # None
    /\ circuits[result.circ].queue # <<>>

C3_CompileFailsAndSucceedsAtMostOnce ==
    /\ [](\A c \in Live : circuits[c].compiles <= 1)
    /\ [][result'.op = "compile" =>
            /\ (\/ circuits[result'.circ].compiled_execute # None
                \/ circuits[result'.circ].queue = <<>>
                \/ K.custom_gates) => result'.error = "RuntimeError"
            /\ result'.error # None => circuits' = circuits
            /\ result'.error = None =>
                 /\ circuits[result'.circ].compiles = 0
                 /\ circuits'[result'.circ].compiled_execute # None]_vars

\* C3 happens: a compile call fails on a circuit that an earlier call
\* compiled, and the circuit is still compiled.
C3_Witness ==
    /\ result.op = "compile"
    /\ result.error = "RuntimeError"
    /\ circuits[result.circ].compiles = 1
    /\ circuits[result.circ].compiled_execute = K_compile
    /\ ~K.custom_gates

C5_FuseLeavesOriginalUnchanged ==
    [][result'.op = "fuse" =>
         /\ result'.new # result'.circ
         /\ circuits[result'.new] = NoCircuit
         /\ circuits'[result'.new] # NoCircuit
         /\ circuits'[result'.circ] = circuits[result'.circ]
         /\ \A g \in GateIds : gates'[g] = gates[g]
         /\ tensors' = tensors]_vars

\* C5 happens: fuse was called on a compiled, executed circuit with two
\* gates and a measurement gate, and the fused circuit's queue differs.
C5_Witness ==
    /\ result.op = "fuse"
    /\ Len(circuits[result.circ].queue) = 2
    /\ circuits[result.circ].measurement_gate # 0
    /\ circuits[result.circ].measurement_tuples # {}
    /\ circuits[result.circ].compiled_execute # None
    /\ circuits[result.circ].final_state # NoneT
    /\ circuits[result.new].queue # circuits[result.circ].queue

\* C6 as stated: in a copy made by _fuse_copy, a trainable parametrized
\* gate is a distinct object with a parameter tensor of its own, and an
\* update of the copy's parameter leaves the original's parameter as it
\* was; the other queued gates are the same objects in both circuits.
C6_CopiedGatesOwnTheirParameters ==
    /\ [](\A g \in GateIds :
            (gates[g].copy_of # 0 /\ isParametrizedGate(gates[g])) =>
               /\ g # gates[g].copy_of
               /\ gates[g].param # gates[gates[g].copy_of].param)
    /\ [][(result'.op = "assign" /\ gates[result'.gate].copy_of # 0) =>
            tensors'[gates[gates[result'.gate].copy_of].param]
              = tensors[gates[gates[result'.gate].copy_of].param]]_vars
    /\ [][result'.op = "_fuse_copy" =>
            \A i \in 1..Len(circuits[result'.circ].queue) :
               LET g == circuits[result'.circ].queue[i]
                   h == circuits'[result'.new].queue[i]
               IN IF isParametrizedGate(gates[g]) /\ gates[g].trainable
                  THEN h # g ELSE h = g]_vars

\* C6 fails: the parameter of a trainable gate of the copy was updated in
\* place, and the gate it was copied from, holding the same tensor, took
\* the new value.
C6_Witness ==
    /\ result.op = "assign"
    /\ gates[result.gate].copy_of # 0
    /\ gates[gates[result.gate].copy_of].param = gates[result.gate].param
    /\ \E c \in Live : \E i \in 1..Len(circuits[c].queue) :
         circuits[c].queue[i] = gates[result.gate].copy_of

\* Whether the call recorded in result applied no gate, kept no final state
\* and returned nothing.
RejectedBeforeGates ==
    /\ result.ret = NoRet
    /\ \A i \in 1..Len(result.events) :
         result.events[i] \notin {"gate", "set", "sample", "stack"}
    /\ circuits[result.circ].final_state = NoneT

\* Whether the call recorded in result is an execute with a given initial
\* state on a circuit of class cls.
ExecutedWithState(cls) ==
    /\ result.op = "execute"
    /\ circuits[result.circ].cls = cls
    /\ result.init # NoneT

\* Whether the call recorded in result asked for no run of the queue at
\* all: zero shots of a circuit in repeated-execution mode.
ZeroRuns ==
    circuits[result.circ].repeated_execution /\ result.nshots = <<0>>

C8_ForeignTypeFailsWithTypeError ==
    (/\ result.op = "execute"
     /\ result.init # NoneT
     /\ ~isTensorType(result.init))
       => (result.error = "TypeError" /\ RejectedBeforeGates)

\* C8 fails: a density-matrix circuit took a vector that is not of a
\* backend tensor type, ran its gates on it and returned.
C8_Witness ==
    /\ ExecutedWithState("DensityMatrixCircuit")
    /\ ~isTensorType(result.init)
    /\ result.error = None
    /\ result.ret # NoRet
    /\ \E i \in 1..Len(result.events) : result.events[i] = "gate"

\* The density matrix of the pure state v, promoted outside the circuit:
\* entry (j, k) is v[j] times the conjugate of v[k].
ExternalOuter(v) ==
    [j \in 1..Len(v) |-> [k \in 1..Len(v) |->
        <<v[j][1] * v[k][1] + v[j][2] * v[k][2],
          v[j][2] * v[k][1] - v[j][1] * v[k][2]>>]]

ExternallyPromoted(v) ==
    Tensor("backend", TRUE, <<Len(v.data), Len(v.data)>>,
           ExternalOuter(v.data))

\* The state vectors of a backend tensor type tried on a circuit.
StateVectors(circ) ==
    {v \in InitialStates(circ.nqubits) \ {NoneT} :
        isTensorType(v) /\ v.shape = <<Pow2(circ.nqubits)>>}

\* C9: on a density-matrix circuit, execute with a state vector v of shape
\* (2^n,) does, under every outcome of the backend, what execute with the
\* externally promoted matrix outer(v, conj(v)) does, and leaves that
\* matrix evolved by the gates as final state; a state of shape (2^n, 2^n)
\* is used as given; a state of any other shape is rejected before any
\* gate.
C9_VectorPromotedAsExternalOuter ==
    /\ \A c \in Live :
         circuits[c].cls = "DensityMatrixCircuit" =>
           \A v \in StateVectors(circuits[c]), nshots \in NShots :
              \A runs \in RunInputs(circuits[c],
                                    Runs(circuits[c], nshots)) :
                 execute(circuits[c], v, nshots, TRUE, runs, FALSE)
                   = execute(circuits[c], ExternallyPromoted(v), nshots,
                             TRUE, runs, FALSE)
    /\ (/\ ExecutedWithState("DensityMatrixCircuit")
        /\ isTensorType(result.init)
        /\ result.error = None)
         => /\ result.init.shape \in
                 {circuits[result.circ].shapes.VECTOR,
                  circuits[result.circ].shapes.FLAT}
            /\ circuits[result.circ].final_state.data
                 = IF result.init.shape = circuits[result.circ].shapes.VECTOR
                   THEN ExternalOuter(result.init.data)
                   ELSE result.init.data
    /\ (/\ ExecutedWithState("DensityMatrixCircuit")
        /\ result.init.has_shape
        /\ result.init.shape \notin
             {circuits[result.circ].shapes.VECTOR,
              circuits[result.circ].shapes.FLAT})
         => (result.error # None /\ RejectedBeforeGates)

\* C9 happens: a density-matrix circuit ran its gates on a state vector
\* with an imaginary amplitude, and its final state holds the conjugated
\* off-diagonal entry.
C9_Witness ==
    /\ ExecutedWithState("DensityMatrixCircuit")
    /\ isTensorType(result.init)
    /\ result.init.shape = circuits[result.circ].shapes.VECTOR
    /\ result.error = None
    /\ circuits[result.circ].final_state.ops # <<>>
    /\ circuits[result.circ].final_state.shape
         = circuits[result.circ].shapes.FLAT
    /\ circuits[result.circ].final_state.data[1][2] = Cx(0, 0 - 1)
    /\ circuits[result.circ].final_state.data[2][1] = Cx(0, 1)

\* Whether the call recorded in result had a measurement gate to sample
\* with and a number of shots.
Measured ==
    circuits[result.circ].measurement_gate # 0 /\ result.nshots # <<>>

\* C10 (as the code has it): an execute call that returns returns a
\* measurement record exactly when the circuit has a measurement gate and
\* nshots is given; otherwise it returns the final-state tensor, except
\* that a circuit in repeated-execution mode given nshots returns the
\* stack of the nshots final states.
C10_ReturnsRecordOrStateOrStack ==
    (result.op = "execute" /\ result.error = None) =>
       /\ (result.ret.kind = "CircuitResult") <=> Measured
       /\ Measured =>
            result.ret.tuples = circuits[result.circ].measurement_tuples
       /\ ~Measured =>
            IF circuits[result.circ].repeated_execution
               /\ result.nshots # <<>>
            THEN /\ result.ret.kind = "stack"
                 /\ Len(result.ret.states) = result.nshots[1]
            ELSE /\ result.ret.kind = "state"
                 /\ result.ret.state = circuits[result.circ].final_state

\* C10 happens: a circuit with a channel and no measurement gate was given
\* nshots and returned the stack of its final states.
C10_Witness ==
    /\ result.op = "execute"
    /\ result.error = None
    /\ ~Measured
    /\ result.nshots = <<1>>
    /\ result.ret.kind = "stack"
    /\ Len(result.ret.states) = 1

\* C10 as stated: a measurement record exactly when there is a measurement
\* gate and nshots is given, the final-state tensor in every other case.
C10_ReturnsRecordOrState ==
    (result.op = "execute" /\ result.error = None) =>
       /\ (result.ret.kind = "CircuitResult") <=> Measured
       /\ ~Measured =>
            /\ result.ret.kind = "state"
            /\ result.ret.state = circuits[result.circ].final_state

\* The number of events e among the events of the call recorded in result.
Count(e) ==
    Cardinality({i \in 1..Len(result.events) : result.events[i] = e})

\* Whether the call recorded in result is an execute call that returned.
Returned == result.op = "execute" /\ result.error = None

\* Whether the call recorded in result took the repeated-execution branch.
Repeated ==
    circuits[result.circ].repeated_execution /\ result.nshots # <<>>

\* The entries of the state the call recorded in result starts from: the
\* default state, the given state, or the density matrix of the vector
\* given to a density-matrix circuit.
StartData ==
    IF result.init = NoneT
    THEN K_initial_state(circuits[result.circ].nqubits,
                         circuits[result.circ].density_matrix).data
    ELSE IF /\ circuits[result.circ].density_matrix
            /\ result.init.shape = circuits[result.circ].shapes.VECTOR
    THEN ExternalOuter(result.init.data)
    ELSE result.init.data

\* Whether state s is the start state after one pass over the queue.
OnePass(s) ==
    /\ s.data = StartData
    /\ Len(s.ops) = Len(circuits[result.circ].queue)

\* C11: an execute call in repeated-execution mode that returns ran the
\* whole queue nshots times, each run from a newly resolved initial state,
\* and returns one entry per shot: the stack of the nshots final states
\* without a measurement gate, one record of nshots single-shot samples
\* with one.
C11_RepeatedRunsQueueOncePerShot ==
    (Returned /\ Repeated) =>
       /\ Count("init") = result.nshots[1]
       /\ Count("set") = result.nshots[1]
       /\ Count("gate")
            = result.nshots[1] * Len(circuits[result.circ].queue)
       /\ IF circuits[result.circ].measurement_gate = 0
          THEN /\ result.ret.kind = "stack"
               /\ Len(result.ret.states) = result.nshots[1]
               /\ \A k \in 1..Len(result.ret.states) :
                    OnePass(result.ret.states[k])
          ELSE /\ result.ret.kind = "CircuitResult"
               /\ Len(result.ret.samples) = result.nshots[1]
               /\ \A k \in 1..Len(result.ret.samples) :
                    /\ result.ret.samples[k].nshots = <<1>>
                    /\ OnePass(result.ret.samples[k].state)

\* C11 happens: two shots of a circuit with a channel returned a stack of
\* two final states that differ by what the channel drew.
C11_Witness ==
    /\ Returned /\ Repeated
    /\ result.nshots = <<2>>
    /\ result.init # NoneT
    /\ result.ret.kind = "stack"
    /\ Len(result.ret.states) = 2
    /\ result.ret.states[1] # result.ret.states[2]

\* C12: a density-matrix circuit is never flagged for repeated execution,
\* and an execute call on one, whatever its queue (channels included) and
\* nshots, enters the device context once, stacks nothing and passes over
\* the queue at most once: exactly once when it returns, not past the
\* failing gate when it raises.
C12_DensityMatrixNeverRepeated ==
    /\ \A c \in Live :
         circuits[c].density_matrix => ~circuits[c].repeated_execution
    /\ (result.op = "execute" /\ circuits[result.circ].density_matrix) =>
          /\ Count("enter") = 1
          /\ Count("exit") = 1
          /\ Count("stack") = 0
          /\ Count("init") <= 1
          /\ Count("gate") <= Len(circuits[result.circ].queue)
          /\ result.error = None =>
               /\ Count("init") = 1
               /\ Count("gate") = Len(circuits[result.circ].queue)
               /\ result.ret.kind \in {"state", "CircuitResult"}
               /\ result.ret.kind = "CircuitResult" =>
                    /\ Len(result.ret.samples) = 1
                    /\ result.ret.samples[1].nshots = result.nshots
                    /\ OnePass(result.ret.samples[1].state)
               /\ result.ret.kind = "state" => OnePass(result.ret.state)

\* C12 happens: a density-matrix circuit with a channel and a measurement
\* gate was executed with two shots and passed over its queue once.
C12_Witness ==
    /\ Returned
    /\ circuits[result.circ].density_matrix
    /\ result.nshots = <<2>>
    /\ circuits[result.circ].measurement_gate # 0
    /\ \E i \in 1..Len(circuits[result.circ].queue) :
         gates[circuits[result.circ].queue[i]].kind = "channel"
    /\ Count("gate") = Len(circuits[result.circ].queue)
    /\ result.ret.kind = "CircuitResult"

\* The number of device contexts held after the first i events of the call
\* recorded in result.
Held(i) ==
    Cardinality({j \in 1..i : result.events[j] = "enter"})
      - Cardinality({j \in 1..i : result.events[j] = "exit"})

\* C13: in every execute call, returning or raising, at most one device
\* context is held at a time and none is held when the call ends; _execute
\* (its reset, the initial state, the gates) runs only inside one.
C13_DeviceContextAlwaysExited ==
    result.op = "execute" =>
       /\ \A i \in 0..Len(result.events) : Held(i) \in {0, 1}
       /\ Held(Len(result.events)) = 0
       /\ \A i \in 1..Len(result.events) :
            result.events[i] \in {"reset", "init", "gate", "set"}
              => Held(i) = 1

\* C13 happens: the backend ran out of memory in a gate call after another
\* gate was applied, and the device context was left before the call raised.
C13_Witness ==
    /\ result.op = "execute"
    /\ result.oom
    /\ result.error = "RuntimeError"
    /\ Count("gate") >= 1
    /\ Count("enter") = 1
    /\ result.events[Len(result.events)] = "exit"

\* C14 as stated: within an execute call, normal or repeated, the
\* measurement gate samples the state while the device context that
\* applied the queue is still held.
C14_SamplingInsideDeviceContext ==
    result.op = "execute" =>
       \A i \in 1..Len(result.events) :
          result.events[i] = "sample" => Held(i) = 1

\* C14 fails: an execute call with a measurement gate and nshots returned
\* its record, and its sampling came after the device context was left.
C14_Witness ==
    /\ Returned
    /\ result.ret.kind = "CircuitResult"
    /\ \E i \in 2..Len(result.events) :
         /\ result.events[i] = "sample"
         /\ result.events[i - 1] = "exit"
         /\ Held(i) = 0

\* The number of events e in a sequence of events.
CountIn(events, e) ==
    Cardinality({i \in 1..Len(events) : events[i] = e})

\* What an execute call whose run k fails at gate position at (0: before
\* the first gate) must have done when it raises: k device contexts entered
\* and left, k initial states resolved, and the gates before the failing
\* one, once per run, and nothing after.
StoppedAt(circ, r, k, at) ==
    /\ r.ret = NoRet
    /\ CountIn(r.events, "enter") = k
    /\ CountIn(r.events, "exit") = k
    /\ CountIn(r.events, "init") = k
    /\ CountIn(r.events, "set") = k - 1
    /\ CountIn(r.events, "gate")
         = (k - 1) * Len(circ.queue) + (IF at = 0 THEN 0 ELSE at - 1)
    /\ r.events[Len(r.events)] = "exit"

\* C15: when the backend runs out of memory while applying the queue, the
\* execute call raises RuntimeError (the one that names the device) after
\* leaving the device context, without applying any gate again; an error
\* of a gate that is not the out-of-memory error is raised as it is; the
\* call recorded in result carries the out-of-memory mark only with
\* RuntimeError.
C15_OutOfMemoryRaisedOnceOthersUnchanged ==
    /\ \A c \in Live, nshots \in NShots :
         \A runs \in RunInputs(circuits[c], Runs(circuits[c], nshots)) :
            \A k \in 1..Len(runs) :
               runs[k].fault.error # None =>
                  /\ StoppedAt(circuits[c],
                               execute(circuits[c], NoneT, nshots, TRUE,
                                       runs, FALSE),
                               k, runs[k].fault.at)
                  /\ execute(circuits[c], NoneT, nshots, TRUE, runs,
                             FALSE).error
                       = IF runs[k].fault.error = "OOM"
                         THEN "RuntimeError" ELSE runs[k].fault.error
                  /\ execute(circuits[c], NoneT, nshots, TRUE, runs,
                             FALSE).oom
                       = (runs[k].fault.error = "OOM")
    /\ result.oom => (result.op = "execute"
                      /\ result.error = "RuntimeError")
    /\ (result.op = "execute" /\ result.error \notin {None, "RuntimeError"})
         => ~result.oom

\* C15 happens: in the second shot of a repeated execution the backend ran
\* out of memory at a gate; the call raised RuntimeError and stopped there.
C15_Witness ==
    /\ result.op = "execute"
    /\ result.oom
    /\ result.error = "RuntimeError"
    /\ result.nshots = <<2>>
    /\ Count("enter") = 2
    /\ Count("exit") = 2
    /\ Count("set") = 1
    /\ Count("gate") > Len(circuits[result.circ].queue)
    /\ Count("gate") < 2 * Len(circuits[result.circ].queue)

\* The outcome of _execute on a circuit from an initial state when nothing
\* fails: the error of the initial state, or the final state.
Outcome(circ, initial_state) ==
    execute_(circ, initial_state, TRUE, NoFault,
             [i \in 1..Len(circ.queue) |-> 0])

C17_FinalStateHasFlatShape ==
    (Returned /\ ~Repeated) =>
       /\ circuits[result.circ].final_state.shape
            = IF circuits[result.circ].density_matrix
              THEN <<Pow2(circuits[result.circ].nqubits),
                     Pow2(circuits[result.circ].nqubits)>>
              ELSE <<Pow2(circuits[result.circ].nqubits)>>
       /\ result.ret.kind = "state" =>
            result.ret.state = circuits[result.circ].final_state
       /\ result.ret.kind = "CircuitResult" =>
            result.ret.samples[1].state = circuits[result.circ].final_state

\* C17 happens: a compiled state-vector circuit of two qubits with a gate
\* returned a final state of shape (4,).
C17_Witness ==
    /\ Returned /\ ~Repeated
    /\ circuits[result.circ].nqubits = 2
    /\ ~circuits[result.circ].density_matrix
    /\ circuits[result.circ].compiled_execute # None
    /\ circuits[result.circ].final_state.shape = <<4>>
    /\ circuits[result.circ].final_state.ops # <<>>

\* Whether no gate of a circuit's queue is stochastic.
Deterministic(circ) ==
    \A i \in 1..Len(circ.queue) : gates[circ.queue[i]].kind # "channel"

\* C18: on a circuit without stochastic gates, what an execute call does
\* (its error, the value it returns, the final state it leaves) depends on
\* the initial state and nshots it is given and not on the final state an
\* earlier call left; two successful executions in a row with the same
\* initial state leave identical final states.
C18_ExecutionIndependentOfEarlierOnes ==
    /\ [](\A c \in Live :
            Deterministic(circuits[c]) =>
               \A initial_state \in InitialStates(circuits[c].nqubits),
                  nshots \in NShots :
                  execute(circuits[c], initial_state, nshots, TRUE,
                          Quiet(circuits[c], Runs(circuits[c], nshots)),
                          FALSE)
                    = execute([circuits[c] EXCEPT !.final_state = NoneT],
                              initial_state, nshots, TRUE,
                              Quiet(circuits[c], Runs(circuits[c], nshots)),
                          FALSE))
    /\ [][(/\ result.op = "execute" /\ result.error = None
           /\ result'.op = "execute" /\ result'.error = None
           /\ result'.circ = result.circ
           /\ result'.init = result.init
           /\ Deterministic(circuits[result.circ]))
            => circuits'[result.circ].final_state
                 = circuits[result.circ].final_state]_vars

\* C18 happens: a circuit with a gate and an earlier final state was
\* executed again from the default state and holds a final state of one
\* pass over the queue.
C18_Witness ==
    /\ Returned
    /\ result.init = NoneT
    /\ Deterministic(circuits[result.circ])
    /\ circuits[result.circ].queue # <<>>
    /\ circuits[result.circ].compiled_execute # None
    /\ circuits[result.circ].executed
    /\ OnePass(circuits[result.circ].final_state)

\* The state the last run of the execute call recorded in result ended in,
\* as the value the call returned shows it.
LastState ==
    IF result.ret.kind = "state" THEN result.ret.state
    ELSE IF result.ret.kind = "stack"
    THEN result.ret.states[Len(result.ret.states)]
    ELSE result.ret.samples[Len(result.ret.samples)].state

\* C19: after an execute call that returned, whatever was executed before,
\* the final state is the state the last run of that call ended in (the last
\* shot's in repeated-execution mode with nshots >= 1) and is one pass over
\* the queue from that call's initial state; a read of final_state that
\* follows returns it.
C19_FinalStateIsOfMostRecentExecution ==
    /\ []((Returned /\ ~ZeroRuns) =>
            /\ circuits[result.circ].final_state # NoneT
            /\ circuits[result.circ].final_state = LastState
            /\ OnePass(circuits[result.circ].final_state))
    /\ []((result.op = "final_state" /\ result.error = None) =>
            result.ret.state = circuits[result.circ].final_state)
    /\ [][(Returned /\ ~ZeroRuns /\ result'.op = "final_state")
            => /\ result'.error = None
               /\ result'.ret.state = LastState]_vars

\* C19 happens: an execution of two shots whose runs ended in different
\* states left the second shot's state as the final state.
C19_Witness ==
    /\ Returned /\ Repeated
    /\ result.nshots = <<2>>
    /\ result.ret.kind = "stack"
    /\ result.ret.states[1] # result.ret.states[2]
    /\ circuits[result.circ].final_state = result.ret.states[2]
    /\ circuits[result.circ].compiled_execute # None

\* The queue positions of a circuit that hold a callback gate of callback
\* cb, and those before position i that hold any other gate.
CallbackPositions(circ, cb) ==
    {i \in 1..Len(circ.queue) :
        /\ gates[circ.queue[i]].kind = "callback"
        /\ gates[circ.queue[i]].callback = cb}

ActingBefore(circ, i) ==
    {j \in 1..(i - 1) : gates[circ.queue[j]].kind # "callback"}

\* The k-th smallest element of a set of positions.
NthOf(P, k) == CHOOSE i \in P : Cardinality({j \in P : j < i}) = k - 1

\* Whether v is a value observed at queue position i of a run of the call
\* recorded in result: a value of the call's start state after exactly the
\* gates other than callback gates that precede i, in their order.
ObservedAt(circ, v, i) ==
    /\ v.data = StartData
    /\ Len(v.ops) = Cardinality(ActingBefore(circ, i))
    /\ \A k \in 1..Len(v.ops) :
         v.ops[k][1] = gates[circ.queue[NthOf(ActingBefore(circ, i), k)]].name

\* What an execute call with `done` completed runs of the queue, and `a`
\* gate calls returned in a run that failed, has recorded for callback cb:
\* one value per callback gate of cb and completed run, run after run and
\* in queue order within a run; after them, from an eager run that failed,
\* the values of the callback gates before the failing gate.
RecordedFor(circ, rec, cb, done, a) ==
    LET P == CallbackPositions(circ, cb)
        n == Cardinality(P)
        partial == IF result.error # None /\ circ.compiled_execute = None
                   THEN Cardinality({i \in P : i <= a}) ELSE 0
    IN /\ Len(rec) = done * n + partial
       /\ \A r \in 1..done, k \in 1..n :
            ObservedAt(circ, rec[(r - 1) * n + k], NthOf(P, k))
       /\ \A k \in 1..partial :
            ObservedAt(circ, rec[done * n + k], NthOf(P, k))

\* Whether the values the last completed run recorded are states the final
\* state went through: the gates after a callback gate got the state the
\* callback gate received.
LastRunUnaltered(circ, rec, cb, done) ==
    LET n == Cardinality(CallbackPositions(circ, cb))
    IN \A k \in 1..n :
          rec[(done - 1) * n + k].ops
            = SubSeq(circ.final_state.ops, 1,
                     Len(rec[(done - 1) * n + k].ops))

\* C20 (as the code has it): in either mode every run of the queue that
\* completes records, for every callback, one value per callback gate of
\* that callback, in queue order, each the value of the state the gates
\* before it produced, and the callback gates leave the state as it is. An
\* execute call that returns has one completed run outside
\* repeated-execution mode and nshots of them in it; a compiled run that
\* raises records nothing, an eager run that raises has recorded the values
\* of the callback gates before the failing gate. What a call records is
\* appended to the callbacks' histories.
C20_CompletedRunRecordsOncePerCallbackGate ==
    /\ [](result.op = "execute" =>
            /\ \A cb \in CallbackIds :
                 RecordedFor(circuits[result.circ], result.recorded[cb], cb,
                             Count("set"),
                             Count("gate") - Count("set")
                                 * Len(circuits[result.circ].queue))
            /\ Returned =>
                 Count("set") = IF Repeated THEN result.nshots[1] ELSE 1
            /\ (Returned /\ Count("set") >= 1) =>
                 /\ Len(circuits[result.circ].final_state.ops)
                      = Cardinality(ActingBefore(circuits[result.circ],
                            Len(circuits[result.circ].queue) + 1))
                 /\ \A cb \in CallbackIds :
                      LastRunUnaltered(circuits[result.circ],
                                       result.recorded[cb], cb,
                                       Count("set")))
    /\ [][result'.op = "execute" =>
            callbacks' = Extend(callbacks, result'.recorded)]_vars

\* C20 happens: a compiled execution over a queue with two gates of one
\* callback and an acting gate between them returned and recorded two
\* different values, the second after the acting gate.
C20_Witness ==
    /\ Returned /\ ~Repeated
    /\ circuits[result.circ].compiled_execute # None
    /\ \E cb \in CallbackIds :
         /\ CallbackPositions(circuits[result.circ], cb) = {1, 3}
         /\ Len(result.recorded[cb]) = 2
         /\ result.recorded[cb][1].ops = <<>>
         /\ Len(result.recorded[cb][2].ops) = 1
         /\ Len(callbacks[cb]) >= 2
    /\ Len(circuits[result.circ].final_state.ops) = 1

\* C20 as stated: every compiled execute call that returns (one of zero
\* shots apart) extends every callback's history by one value per callback
\* gate of that callback.
C20_EachExecuteRecordsOncePerCallbackGate ==
    (/\ Returned /\ ~ZeroRuns
     /\ circuits[result.circ].compiled_execute # None) =>
        \A cb \in CallbackIds :
            Len(result.recorded[cb])
              = Cardinality(CallbackPositions(circuits[result.circ], cb))

\* C21: a constructed TensorFlow backend has the first GPU device as its
\* default device when there is a GPU device, else the first CPU device
\* when there is one; with neither, construction fails with a RuntimeError
\* and no backend.
C21_DefaultDeviceFirstGpuElseFirstCpu ==
    result.op = "TensorflowBackend" =>
        IF input.GPU # <<>>
        THEN /\ result.error = None
             /\ result.ret.default_device = input.GPU[1].name
        ELSE IF input.CPU # <<>>
        THEN /\ result.error = None
             /\ result.ret.default_device = input.CPU[1].name
        ELSE /\ result.error = "RuntimeError"
             /\ result.ret = NoRet

\* C21 happens: a backend was constructed where CPU and GPU devices are
\* present, the first GPU device not being the one of lowest index.
C21_Witness ==
    /\ result.op = "TensorflowBackend"
    /\ result.error = None
    /\ input.CPU # <<>>
    /\ Len(input.GPU) = 2
    /\ input.GPU[1].name[2] > input.GPU[2].name[2]
    /\ result.ret.default_device = input.GPU[1].name

\* C22: _gate_tomography with nqubits 1 or 2 (and no gate or a gate on
\* nqubits qubits) returns a matrix of 4^nqubits by 4^nqubits entries, entry
\* (j, k) being the constant 1.0 when j is 0 and else the expectation of the
\* j-th observable from an execution of the circuit of the k-th state and
\* the j-th measurement basis, with one _expectation_value call per pair;
\* with any other nqubits it fails with ValueError.
C22_TomographyMatrixOfExpectations ==
    result.op = "_gate_tomography" =>
        IF input.nqubits \notin {1, 2}
        THEN result.error = "ValueError"
        ELSE (input.gate = NoGate \/ input.gate.nqubits = input.nqubits) =>
               /\ result.error = None
               /\ result.ret.kind = "ndarray"
               /\ DOMAIN result.ret.matrix
                    = (0..(Pow2(2 * input.nqubits) - 1))
                        \X (0..(Pow2(2 * input.nqubits) - 1))
               /\ Count("_expectation_value")
                    = Pow2(2 * input.nqubits) * Pow2(2 * input.nqubits)
               /\ \A jk \in DOMAIN result.ret.matrix :
                    IF jk[1] = 0
                    THEN result.ret.matrix[jk].from = "constant 1.0"
                    ELSE /\ result.ret.matrix[jk].from = "samples"
                         /\ result.ret.matrix[jk].circuit
                              = <<tomography_circuit(input.nqubits,
                                     input.gate, jk[1], jk[2])>>
                         /\ result.ret.matrix[jk].observable
                              = observables_(input.nqubits, jk[1])

\* C22's case happens: _gate_tomography was called for one qubit without a
\* gate and raised at its first _expectation_value call.
C22_Witness ==
    /\ result.op = "_gate_tomography"
    /\ input.nqubits = 1 /\ input.gate = NoGate
    /\ result.error = "TypeError"
    /\ Count("_expectation_value") = 1
    /\ Count("execute_circuit") = 0

\* C23: every entry of the gradient of gradient_Pauli is made of the da,
\* db, dc terms alone (ds taken as 0) when use_ds is False, and with the ds
\* that ds_di_Pauli computed when use_ds is True.
C23_StepDerivativeUsedOnlyWithUseDs ==
    result.op = "gradient_Pauli" =>
        \A i \in 1..Len(input.derivatives) :
            result.ret.grad[i]
              = grad_entry(input.s, input.coef.a, input.coef.b, input.coef.c,
                           input.derivatives[i].da, input.derivatives[i].db,
                           input.derivatives[i].dc,
                           IF input.use_ds THEN input.derivatives[i].ds
                           ELSE 0)

\* C23's case happens: with use_ds True and a ds that is not 0 computed for
\* an operator, the entry of the gradient is the one of ds = 0.
C23_Witness ==
    /\ result.op = "gradient_Pauli"
    /\ input.use_ds
    /\ \E i \in 1..Len(input.derivatives) :
         /\ input.derivatives[i].ds # 0
         /\ result.ret.grad[i]
              = grad_entry(input.s, input.coef.a, input.coef.b, input.coef.c,
                           input.derivatives[i].da, input.derivatives[i].db,
                           input.derivatives[i].dc, 0)
         /\ result.ret.grad[i]
              # grad_entry(input.s, input.coef.a, input.coef.b, input.coef.c,
                           input.derivatives[i].da, input.derivatives[i].db,
                           input.derivatives[i].dc, input.derivatives[i].ds)

\* C24: select_best_dbr_generator returns, and the index it returns is one
\* of an operator of d_list (0..len(d_list)-1) or, only when
\* compare_canonical is True, len(d_list); the dbi_object given is as it
\* was.
C24_SelectedIndexIsACandidate ==
    result.op = "select_best_dbr_generator" =>
        /\ result.error = None
        /\ \/ result.ret.idx_max_loss \in 0..(Len(input.d_list) - 1)
           \/ /\ result.ret.idx_max_loss = Len(input.d_list)
              /\ input.compare_canonical
        /\ input.dbi_object = input.before

\* C24's case happens: without the canonical bracket, and with one operator
\* whose rotation raises the off-diagonal norm, the index found is
\* len(d_list) and the call raises IndexError.
C24_Witness ==
    /\ result.op = "select_best_dbr_generator"
    /\ ~input.compare_canonical
    /\ Len(input.d_list) = 1
    /\ input.d_list[1].sgn # 0
    /\ input.d_list[1].norm > input.before.off_diagonal_norm
    /\ result.error = "IndexError"
    /\ result.ret.idx_max_loss = Len(input.d_list)
    /\ input.dbi_object = input.before

\* Whether x is a positive integer.
PositiveInteger(x) == x.type \in {"int", "bool"} /\ x.value >= 1

\* C25: a set_threads call with an argument that is not an integer or is
\* smaller than 1 raises RuntimeError and leaves the thread count as it
\* was; any other call sets it to its argument; get_threads returns the
\* thread count and leaves it; so the thread count is the startup value or
\* a positive integer that the most recent successful set_threads call was
\* given.
C25_ThreadCountIsLastAcceptedArgument ==
    /\ [][result'.op = "set_threads" =>
            IF PositiveInteger(input'.num_threads)
            THEN /\ result'.error = None
                 /\ OMP_NUM_THREADS' = input'.num_threads
            ELSE /\ result'.error = "RuntimeError"
                 /\ OMP_NUM_THREADS' = OMP_NUM_THREADS]_vars
    /\ [][result'.op = "get_threads" =>
            /\ result'.ret.value = OMP_NUM_THREADS
            /\ OMP_NUM_THREADS' = OMP_NUM_THREADS]_vars
    /\ [](input.of # "none" =>
            \/ OMP_NUM_THREADS = input.startup
            \/ PositiveInteger(OMP_NUM_THREADS))
    /\ []((result.op = "set_threads" /\ result.error = None) =>
            /\ OMP_NUM_THREADS = input.num_threads
            /\ PositiveInteger(OMP_NUM_THREADS))

\* C25 happens: after an accepted set_threads call and a rejected one with
\* an integer below 1, get_threads returned the accepted argument, which
\* is not the startup value.
C25_Witness ==
    /\ result.op = "get_threads"
    /\ input.num_threads.type = "int"
    /\ input.num_threads.value < 1
    /\ result.ret.value # input.startup
    /\ result.ret.value # input.num_threads
    /\ result.ret.value = OMP_NUM_THREADS
    /\ PositiveInteger(OMP_NUM_THREADS)

====
